---- MODULE Spec2Model ----
(***************************************************************************)
(* A model of pySpace (hennersz/pySpace), the satellite orbit simulator.   *)
(*                                                                         *)
(* Floating point quantities are modelled in fixed point: a float x is the *)
(* integer round(x * Scale).  Lengths are kilometres, angles are radians   *)
(* or degrees exactly as in the source, times are seconds.  Every          *)
(* arithmetic helper below rounds to the nearest representable value, as   *)
(* IEEE arithmetic does.                                                   *)
(***************************************************************************)
EXTENDS Integers, Sequences, FiniteSets, TLC

VARIABLES
    \* analysis/visibility.py, getStationPassTimes
    ecefData,       \* the Earth-fixed trajectory: a list of <<R, V, time>>
    station,        \* <<lat, lon, maskingAngle>> in degrees
    idx,            \* the position of the for loop in ecefData (1-based)
    vis,            \* isVisible of the sample last scanned
    seenPrev,       \* the scan state: TRUE is Visible, FALSE is NotVisible
    res,            \* the pass records appended so far
    currStartTime,  \* the rise time of the open pass
    theta,          \* the elevation at the last rise (degrees)
    alpha,          \* the azimuth at the last rise (degrees)
    pc,             \* "scan" inside the loop, "done" after return res
    \* solveKepler.py, solveKepler
    kepEcc,         \* the argument e, the eccentricity
    kepM,           \* the argument M, the mean anomaly (radians)
    kepE,           \* the local E, the eccentric anomaly (radians)
    kepPc,          \* "loop" inside the while loop, "returned" after
                    \* return E, or the name of the exception raised
    \* main.py, difference
    set1,           \* readECIData(args.infile1): a list of <<R, V, time>>
    set2,           \* readECIData(args.infile2)
    diffArgs,       \* <<"hcl">>, or <<"enu", lat, lon>> for --enu lat lon
    zipK,           \* the position of zip(set1, set2) (1-based)
    diffs,          \* the rows appended so far
    outfile,        \* the rows written by writeData
    diffPc,         \* "zip" inside the for loop, "written" after writeData
    \* propogation/keplerianPropogation.py and propogation/rk4.py
    propAlg,        \* the propagator called
    propArgs,       \* its arguments R, V, timestep (or dt), steps, baseTime
    results,        \* the list results of <<R, V, time>>
    newR,           \* the local newR
    newV,           \* the local newV
    propStep,       \* the next value of range(steps)
    propPc,         \* "loop" inside the for loop, "returned" after return
                    \* results, the name of the exception calculateOrbitStep
                    \* raised, or "in solveKepler" when it does not return
    \* a call of one of the pure functions of the package
    callFn,         \* the name of the function called
    callArgs,       \* the tuple of its arguments
    outcome,        \* <<"called">>, then <<"return", value>> or
                    \* <<the name of the exception raised>>
    \* analysis/visibility.py, allPassTimes
    stations,       \* the list stations of the grid
    stationsProcessed,  \* the number of stations whose total is appended
    totals,         \* the list res of allPassTimes: <<lat, lon, total>>
    \* main.py, passTimes: the sweep over the stations of args.stations
    sweepStations,  \* list(triples(args.stations))
    owner,          \* the worker that scans each station of the list
    locals,         \* for each worker, the locals of its call of
                    \* getStationPassTimes, and the station it scans
    stationRes,     \* for each station, the list its scan returned
    sweepPc         \* "sweep" while stations are scanned, "joined" after

passVars == <<ecefData, station, idx, vis, seenPrev, res, currStartTime,
              theta, alpha, pc>>

keplerVars == <<kepEcc, kepM, kepE, kepPc>>

diffVars == <<set1, set2, diffArgs, zipK, diffs, outfile, diffPc>>

propVars == <<propAlg, propArgs, results, newR, newV, propStep, propPc>>

callVars == <<callFn, callArgs, outcome>>

gridVars == <<stations, stationsProcessed, totals>>

sweepVars == <<sweepStations, owner, locals, stationRes, sweepPc>>

vars == <<passVars, keplerVars, diffVars, propVars, callVars, gridVars,
          sweepVars>>

\* no call of getStationPassTimes is running
PassIdle ==
    /\ ecefData = <<>>
    /\ station = <<0, 0, 0>>
    /\ idx = 0
    /\ vis = FALSE
    /\ seenPrev = FALSE
    /\ res = <<>>
    /\ currStartTime = 0
    /\ theta = 0
    /\ alpha = 0
    /\ pc = "idle"

\* no call of solveKepler is running
KeplerIdle ==
    /\ kepEcc = 0
    /\ kepM = 0
    /\ kepE = 0
    /\ kepPc = "idle"

\* no call of difference is running
DiffIdle ==
    /\ set1 = <<>>
    /\ set2 = <<>>
    /\ diffArgs = <<"hcl">>
    /\ zipK = 0
    /\ diffs = <<>>
    /\ outfile = <<>>
    /\ diffPc = "idle"

\* no propagator is running
PropIdle ==
    /\ propAlg = "none"
    /\ propArgs = [R |-> <<0, 0, 0>>, V |-> <<0, 0, 0>>, timestep |-> 0,
                   steps |-> 0, baseTime |-> 0]
    /\ results = <<>>
    /\ newR = <<0, 0, 0>>
    /\ newV = <<0, 0, 0>>
    /\ propStep = 0
    /\ propPc = "idle"

\* no function call is running
CallIdle ==
    /\ callFn = "none"
    /\ callArgs = <<>>
    /\ outcome = <<"idle">>

\* no call of allPassTimes is running
GridIdle ==
    /\ stations = <<>>
    /\ stationsProcessed = 0
    /\ totals = <<>>

\* no sweep of passTimes is running
SweepIdle ==
    /\ sweepStations = <<>>
    /\ owner = <<>>
    /\ locals = <<>>
    /\ stationRes = <<>>
    /\ sweepPc = "idle"

----------------------------------------------------------------------------
(* Fixed-point arithmetic (the model of Python float and the math module). *)
(* Intermediate values are passed as operator arguments, which TLC         *)
(* evaluates once.                                                         *)

Scale == 1000

Abs(x) == IF x < 0 THEN -x ELSE x

\* m / d rounded to the nearest integer (m >= 0, d > 0)
RDivNat(m, d) == (m \div d) + (IF (m % d) >= d - (m % d) THEN 1 ELSE 0)

\* a / b rounded to the nearest integer (b # 0)
RDiv(a, b) ==
    IF (a >= 0) = (b > 0) THEN RDivNat(Abs(a), Abs(b))
                          ELSE -RDivNat(Abs(a), Abs(b))

\* x * y of two fixed-point numbers
FMul(x, y) == RDiv(x * y, Scale)

\* x / y of two fixed-point numbers (y # 0)
FDiv(x, y) == RDiv(x * Scale, y)

\* one step of the bitwise square root: keep bit b if the square still fits
\* (46340 is the largest root of a 32-bit integer)
SqrtBit(n, r, b) ==
    IF r + b <= 46340 /\ (r + b) * (r + b) <= n THEN r + b ELSE r

\* floor(sqrt(n)) of an integer below 2^31 (0 for a negative n)
ISqrt(n) ==
    SqrtBit(n, SqrtBit(n, SqrtBit(n, SqrtBit(n,
    SqrtBit(n, SqrtBit(n, SqrtBit(n, SqrtBit(n,
    SqrtBit(n, SqrtBit(n, SqrtBit(n, SqrtBit(n,
    SqrtBit(n, SqrtBit(n, SqrtBit(n, SqrtBit(n, 0,
    32768), 16384), 8192), 4096), 2048), 1024), 512), 256),
    128), 64), 32), 16), 8), 4), 2), 1)

\* the root r = floor(sqrt(n)) rounded to the nearest integer
RoundRoot(n, r) == IF n - r * r > r THEN r + 1 ELSE r

\* sqrt(n) rounded to the nearest integer
RSqrt(n) == RoundRoot(n, ISqrt(n))

\* math.sqrt of a fixed-point number (x >= 0)
FSqrt(x) == RSqrt(x * Scale)

\* math.pi
PI == 3142

TwoPI == 2 * PI

HalfPI == PI \div 2

\* the next term of a power series: term * x * x / d
SeriesTerm(term, x, d) == RDiv(FMul(FMul(term, x), x), d)

\* the Taylor series of sin from the term of degree k - 1 on, up to x^11
RECURSIVE SinSeries(_, _, _, _)
SinSeries(x, term, k, acc) ==
    IF k > 11 THEN acc + term
    ELSE SinSeries(x, -SeriesTerm(term, x, k * (k + 1)), k + 2, acc + term)

\* sin of an angle in (-pi, pi]: fold it onto [-pi/2, pi/2]
SinFolded(s) ==
    IF s > HalfPI THEN SinSeries(PI - s, PI - s, 2, 0)
    ELSE IF s < -HalfPI THEN SinSeries(-PI - s, -PI - s, 2, 0)
    ELSE SinSeries(s, s, 2, 0)

\* sin of an angle in [0, 2*pi)
SinWrapped(r) == IF r > PI THEN SinFolded(r - TwoPI) ELSE SinFolded(r)

\* math.sin
Sin(x) == SinWrapped(x % TwoPI)

\* math.cos
Cos(x) == Sin(x + HalfPI)

\* the Taylor series of atan from the power pow = w^(k-2) on, up to w^13 / 13
RECURSIVE AtanSeries(_, _, _, _)
AtanSeries(w, pow, k, acc) ==
    IF k > 15 THEN acc
    ELSE AtanSeries(w, -SeriesTerm(pow, w, 1), k + 2, acc + RDiv(pow, k - 2))

\* atan of a fixed-point number in [0, 1]
AtanUnit(z) ==
    IF 2 * z > Scale
    THEN RDiv(PI, 4)
           - AtanSeries(FDiv(Scale - z, Scale + z),
                        FDiv(Scale - z, Scale + z), 3, 0)
    ELSE AtanSeries(z, z, 3, 0)

\* atan2 restricted to the first quadrant (y >= 0, x >= 0, not both 0)
AtanQuadrant(y, x) ==
    IF y <= x THEN AtanUnit(RDiv(y * Scale, x))
              ELSE HalfPI - AtanUnit(RDiv(x * Scale, y))

\* atan2 in the upper half plane (y >= 0)
AtanUpper(y, x) ==
    IF x >= 0 THEN AtanQuadrant(y, x) ELSE PI - AtanQuadrant(y, -x)

\* math.atan2, result in (-pi, pi]
Atan2(y, x) ==
    IF x = 0 /\ y = 0 THEN 0
    ELSE IF y >= 0 THEN AtanUpper(y, x) ELSE -AtanUpper(-y, x)

\* math.atan
Atan(z) == Atan2(z, Scale)

\* math.asin (|u| <= 1)
Asin(u) == Atan2(u, RSqrt(Scale * Scale - u * u))

\* math.degrees
Degrees(x) == RDiv(x * 180 * Scale, PI)

\* math.radians
Radians(d) == RDiv(d * PI, 180 * Scale)

----------------------------------------------------------------------------
(* Vectors: a list of three floats is a tuple <<x, y, z>>.  Positions are  *)
(* whole kilometres; unit vectors and angles have resolution 1/Scale.      *)

\* the mean Earth radius, km (satelliteSimulator/data.py)
EARTHRADIUS == 6378

ZeroVec == <<0, 0, 0>>

\* numpy: a - b
VecSub(a, b) == <<a[1] - b[1], a[2] - b[2], a[3] - b[3]>>

\* numpy.linalg.norm
Norm(a) == RSqrt(a[1] * a[1] + a[2] * a[2] + a[3] * a[3])

\* numpy: a / n, the result a vector of resolution 1/Scale
VecUnit(a, n) == <<FDiv(a[1], n), FDiv(a[2], n), FDiv(a[3], n)>>

\* numpy.dot of a vector with a unit vector
Dot(a, u) == RDiv(a[1] * u[1] + a[2] * u[2] + a[3] * u[3], Scale)

\* utils.normaliseAngle: angle % (2*pi)
normaliseAngle(angle) == angle % TwoPI

\* the branch of normalisedAtan2 on the sign of the result
wrapNegative(result) == IF result < 0 THEN result + TwoPI ELSE result

\* utils.normalisedAtan2
normalisedAtan2(numerator, denominator) ==
    wrapNegative(Atan2(numerator, denominator))

(* The same two functions with the rounding of Python's float.  A float of  *)
(* the model is an integer count of 1/Scale whose significand has FloatBits *)
(* bits (53 in CPython); a sum is rounded to the nearest float, ties to     *)
(* even, as IEEE 754 addition does.                                         *)
FloatBits == 11

RECURSIVE Ulp(_)
\* the spacing of the floats at the magnitude m
Ulp(m) == IF m < 2 ^ FloatBits THEN 1 ELSE 2 * Ulp(m \div 2)

\* the float nearest to x
RoundFloat(x) ==
    LET m == Abs(x)
        u == Ulp(m)
        q == m \div u
        r == m % u
        n == IF 2 * r > u \/ (2 * r = u /\ q % 2 = 1) THEN q + 1 ELSE q
    IN  IF x < 0 THEN -(n * u) ELSE n * u

\* the float 2*math.pi
floatTwoPI == RoundFloat(TwoPI)

\* C fmod: the exact remainder, with the sign of x
fmod(x, w) == IF x < 0 THEN -((-x) % w) ELSE x % w

\* Python's float %: fmod, then the divisor is added to a remainder of the
\* other sign, and that sum is rounded
floatMod(x, w) ==
    IF fmod(x, w) < 0 THEN RoundFloat(fmod(x, w) + w) ELSE fmod(x, w)

\* utils.normaliseAngle on floats
normaliseAngleFloat(angle) == floatMod(angle, floatTwoPI)

\* math.atan2: the float nearest to the angle
atan2Float(y, x) == RoundFloat(Atan2(y, x))

\* result += 2 * math.pi, a rounded sum
wrapNegativeFloat(result) ==
    IF result < 0 THEN RoundFloat(result + floatTwoPI) ELSE result

\* utils.normalisedAtan2 on floats
normalisedAtan2Float(numerator, denominator) ==
    wrapNegativeFloat(atan2Float(numerator, denominator))

----------------------------------------------------------------------------
(* converters/latlong2enu.py                                               *)

\* an east vector without the sign of its first component
calculateEastUnsigned(lon) == <<Sin(lon), Cos(lon), 0>>

\* calculateE: the east unit vector (longitude in radians)
calculateEast(lon) == <<-Sin(lon), Cos(lon), 0>>

\* calculateN: the north unit vector
calculateNorth(lat, lon) ==
    <<-FMul(Cos(lon), Sin(lat)), -FMul(Sin(lon), Sin(lat)), Cos(lat)>>

\* calculateU: the up unit vector
calculateUp(lat, lon) ==
    <<FMul(Cos(lon), Cos(lat)), FMul(Sin(lon), Cos(lat)), Sin(lat)>>

\* calculateENUBasis: <<E, N, U>> for a latitude and longitude in degrees
calculateENUBasis(phi, lambda) ==
    <<calculateEast(Radians(lambda)),
      calculateNorth(Radians(phi), Radians(lambda)),
      calculateUp(Radians(phi), Radians(lambda))>>

----------------------------------------------------------------------------
(* converters/ecef2latlong.py                                              *)

\* a remap that also moves the longitude 180
wrapLongitudeFrom180(longitude) ==
    IF longitude >= 180 * Scale THEN longitude - 360 * Scale ELSE longitude

\* the remap of a longitude in [0, 360) to (-180, 180] (lines 33-34)
wrapLongitude(longitude) ==
    IF longitude > 180 * Scale THEN longitude - 360 * Scale ELSE longitude

\* calculateLatLon: <<longitude, latitude>> in degrees (x, y not both 0)
calculateLatLon(R) ==
    <<wrapLongitude(Degrees(normalisedAtan2(R[2], R[1]))),
      Degrees(Atan(FDiv(R[3], RSqrt(R[1] * R[1] + R[2] * R[2]))))>>

\* calulateHeight: km above the surface
calulateHeight(R) == Norm(R) - EARTHRADIUS

\* a tuple that keeps the order <<longitude, latitude>> of calculateLatLon
latLonHeightUnswapped(ll, height) == <<ll[1], ll[2], height>>

\* the tuple returned by ecef2latlong (line 61)
latLonHeight(ll, height) == <<ll[2], ll[1], height>>

\* ecef2latlong: <<lat, lon, height>>
ecef2latlong(R) == latLonHeight(calculateLatLon(R), calulateHeight(R))

----------------------------------------------------------------------------
(* analysis/visibility.py                                                  *)

\* line 34: the basis of the tuple returned by ecef2latlong
basisOf(llh) == calculateENUBasis(llh[1], llh[2])

\* getBasis: the ENU basis at an Earth-fixed point
getBasis(R) == basisOf(ecef2latlong(R))

\* lines 52-56: the projections of the unit line of sight on the basis
projectOnENU(Rss, enu) == <<Dot(Rss, enu[1]), Dot(Rss, enu[2]), Dot(Rss, enu[3])>>

\* getS2TSVector: the unit line of sight from station Rp to satellite Rs,
\* projected on the station's ENU basis
getS2TSVector(Rs, Rp) ==
    projectOnENU(VecUnit(VecSub(Rs, Rp), Norm(VecSub(Rs, Rp))), getBasis(Rp))

\* calculateAngle: <<elevation, azimuth>> in degrees
calculateAngle(rsse, rssn, rssu) ==
    <<Degrees(Asin(rssu)), Degrees(normalisedAtan2(rsse, rssn))>>

\* the surface point of the up vector u (lines 91-93)
surfacePoint(u) ==
    <<RDiv(u[1] * EARTHRADIUS, Scale), RDiv(u[2] * EARTHRADIUS, Scale),
      RDiv(u[3] * EARTHRADIUS, Scale)>>

\* latLon2ecef: the surface point of a latitude and longitude (degrees)
latLon2ecef(lat, lon) == surfacePoint(calculateUp(Radians(lat), Radians(lon)))

\* calculateAngle of the tuple returned by getS2TSVector (lines 113-114)
anglesOf(s) == calculateAngle(s[1], s[2], s[3])

\* the elevation and azimuth of Rs seen from the station at (lat, lon)
\* (lines 112-114 and 165-167)
computeAngles(Rs, lat, lon) == anglesOf(getS2TSVector(Rs, latLon2ecef(lat, lon)))

\* Earth-fixed satellite positions of the model's trajectories (km)
Positions ==
    { <<7000, 3000, 0>>, <<7000, 0, 0>>, <<6378, 3000, 0>>,
      <<4500, 0, 5700>>, <<4200, 0, 5300>> }

\* the stations of the model, <<lat, lon, maskingAngle>> (degrees)
Stations == { <<0, 0, 0>>, <<51500, -100, 5000>> }

\* the values of range(19) and of range(37) the grid of the model takes
GridLats == <<9, 10>>

GridLons == <<18, 19>>

\* the station appended for lat and lon (line 188), the masking angle 5
gridStation(lat, lon) ==
    <<(lat - 9) * 10 * Scale, (lon - 18) * 10 * Scale, 5 * Scale>>

\* the list stations of allPassTimes (lines 185-188), latitude by latitude
stationsGrid ==
    [k \in 1..(Len(GridLats) * Len(GridLons)) |->
        gridStation(GridLats[((k - 1) \div Len(GridLons)) + 1],
                    GridLons[((k - 1) % Len(GridLons)) + 1])]

\* computeAngles of the model's positions and stations, evaluated once:
\* the set of <<Rs, lat, lon, angles>>
AnglesTable ==
    { <<Rs, s[1], s[2], computeAngles(Rs, s[1], s[2])>> :
        Rs \in Positions,
        s \in Stations \cup {stationsGrid[k] : k \in 1..Len(stationsGrid)} }

stationAngles(Rs, lat, lon) ==
    IF \E t \in AnglesTable : t[1] = Rs /\ t[2] = lat /\ t[3] = lon
    THEN (CHOOSE t \in AnglesTable :
              t[1] = Rs /\ t[2] = lat /\ t[3] = lon)[4]
    ELSE computeAngles(Rs, lat, lon)

\* the comparison of isVisible with a non-strict inequality
aboveMaskOrAt(elevation, maskingAngle) ==
    IF elevation - maskingAngle >= 0 THEN TRUE ELSE FALSE

\* the comparison of isVisible (lines 116-119)
aboveMask(elevation, maskingAngle) ==
    IF elevation - maskingAngle > 0 THEN TRUE ELSE FALSE

\* isVisible: the elevation is above the masking angle (lines 112-119)
isVisible(Rs, lat, lon, maskingAngle) ==
    aboveMask(stationAngles(Rs, lat, lon)[1], maskingAngle)

\* stationVisibility that asks the first station of the list only
stationVisibilityFirst(Rs, stationList) ==
    IF stationList = <<>> THEN FALSE
    ELSE isVisible(Rs, stationList[1][1], stationList[1][2],
                   stationList[1][3])

RECURSIVE stationVisibilityFrom(_, _, _)
\* the for loop of stationVisibility from station k on (lines 135-140):
\* True at the first station that sees Rs, False when the list is exhausted
stationVisibilityFrom(Rs, stationList, k) ==
    IF k > Len(stationList) THEN FALSE
    ELSE IF isVisible(Rs, stationList[k][1], stationList[k][2],
                      stationList[k][3])
    THEN TRUE
    ELSE stationVisibilityFrom(Rs, stationList, k + 1)

\* stationVisibility(Rs, stations)
stationVisibility(Rs, stationList) == stationVisibilityFrom(Rs, stationList, 1)

----------------------------------------------------------------------------
(* analysis/groundTracks.py                                                *)

RECURSIVE groundTracksFrom(_, _, _, _)
\* the for loop of getGroundTracks from position i on (lines 28-31), result
\* being the rows appended so far
groundTracksFrom(ecefPos, stationList, i, result) ==
    IF i > Len(ecefPos) THEN result
    ELSE groundTracksFrom(ecefPos, stationList, i + 1,
             Append(result, <<ecef2latlong(ecefPos[i]),
                              stationVisibility(ecefPos[i], stationList)>>))

\* getGroundTracks(ecefPos, stations)
getGroundTracks(ecefPos, stationList) ==
    groundTracksFrom(ecefPos, stationList, 1, <<>>)

\* passRecord with the elevation and azimuth of the sample that closes the
\* pass
passRecordSetAngles(st, start, step, th, al) ==
    <<st[1], st[2], start, step[3], step[3] - start,
      stationAngles(step[1], st[1], st[2])[1],
      stationAngles(step[1], st[1], st[2])[2]>>

\* passRecord with the rise time and the set time in each other's field
passRecordSwappedTimes(st, start, step, th, al) ==
    <<st[1], st[2], step[3], start, step[3] - start, th, al>>

\* passRecord that stores the end time in the duration field
passRecordNoDuration(st, start, step, th, al) ==
    <<st[1], st[2], start, step[3], step[3], th, al>>

\* the pass record appended when a pass closes at sample step (line 169)
passRecord(st, start, step, th, al) ==
    <<st[1], st[2], start, step[3], step[3] - start, th, al>>

\* the test of line 168 without its vis conjunct: an open pass closes at
\* the next sample
setDetectedWhileVisible(v, seen) == seen

\* the test of line 168 without its seenPrev conjunct
setDetectedUnguarded(v, seen) == ~v

\* the test of line 168: the satellite sets at this sample
setDetected(v, seen) == ~v /\ seen

\* one iteration of the for loop of getStationPassTimes (lines 160-170)
ScanStep ==
    /\ pc = "scan"
    /\ idx <= Len(ecefData)
    /\ LET step == ecefData[idx]
           v    == isVisible(step[1], station[1], station[2], station[3])
       IN  /\ vis' = v
           /\ IF v /\ ~seenPrev
              THEN LET ang == stationAngles(step[1], station[1], station[2])
                   IN  /\ currStartTime' = step[3]
                       /\ seenPrev' = TRUE
                       /\ theta' = ang[1]
                       /\ alpha' = ang[2]
                       /\ UNCHANGED res
              ELSE IF setDetected(v, seenPrev)
              THEN /\ res' = Append(res, passRecord(station, currStartTime,
                                                    step, theta, alpha))
                   /\ seenPrev' = FALSE
                   /\ UNCHANGED <<currStartTime, theta, alpha>>
              ELSE UNCHANGED <<res, seenPrev, currStartTime, theta, alpha>>
    /\ idx' = idx + 1
    /\ UNCHANGED <<ecefData, station, pc>>
    /\ UNCHANGED <<keplerVars, diffVars, propVars, callVars, gridVars,
                   sweepVars>>

\* the loop is exhausted: return res (line 171)
ScanReturn ==
    /\ pc = "scan"
    /\ idx > Len(ecefData)
    /\ pc' = "done"
    /\ UNCHANGED <<ecefData, station, idx, vis, seenPrev, res, currStartTime,
                   theta, alpha>>
    /\ UNCHANGED <<keplerVars, diffVars, propVars, callVars, gridVars,
                   sweepVars>>

----------------------------------------------------------------------------
(* The inputs of a scan                                                    *)

\* the longest trajectory scanned
MaxSamples == 4

\* time grids <<first timestamp, spacing>> (seconds)
TimeGrids == { <<0, 10>>, <<500, 60>>, <<500, 0>> }

\* the trajectory with positions ps on the time grid g
Trajectory(ps, g) ==
    [k \in 1..Len(ps) |-> <<ps[k], ZeroVec, g[1] + (k - 1) * g[2]>>]

\* the locals of getStationPassTimes at entry (lines 155-159)
ScanEntry ==
    /\ idx = 1
    /\ vis = FALSE
    /\ seenPrev = FALSE
    /\ res = <<>>
    /\ currStartTime = 0
    /\ theta = 0
    /\ alpha = 0
    /\ pc = "scan"

Init ==
    /\ SweepIdle
    /\ \E n \in 0..MaxSamples, g \in TimeGrids :
         \E ps \in [1..n -> Positions] : ecefData = Trajectory(ps, g)
    /\ station \in Stations
    /\ ScanEntry
    /\ KeplerIdle
    /\ DiffIdle
    /\ PropIdle
    /\ CallIdle
    /\ GridIdle

Next == ScanStep \/ ScanReturn

Spec == Init /\ [][Next]_vars

\* the longest run of samples after the pass of the scenario
MaxTail == 2

\* the positions the station st sees, and those it does not
SeenFrom(st) == {p \in Positions : isVisible(p, st[1], st[2], st[3])}

HiddenFrom(st) == Positions \ SeenFrom(st)

\* the scenario trajectory: samples 0..9 at the position low, samples 10..40
\* at high, then the positions of tail (ecefData is 1-based: sample k is
\* ecefData[k + 1])
ScenarioPositions(low, high, tail) ==
    [k \in 1..(41 + Len(tail)) |->
        IF k <= 10 THEN low ELSE IF k <= 41 THEN high ELSE tail[k - 41]]

\* getStationPassTimes called on a scenario trajectory
InitScenario ==
    /\ SweepIdle
    /\ station \in Stations
    /\ \E low \in HiddenFrom(station), high \in SeenFrom(station),
          n \in 0..MaxTail, g \in TimeGrids :
         \E tail \in [1..n -> HiddenFrom(station)] :
            ecefData = Trajectory(ScenarioPositions(low, high, tail), g)
    /\ ScanEntry
    /\ KeplerIdle
    /\ DiffIdle
    /\ PropIdle
    /\ CallIdle
    /\ GridIdle

SpecScenario == InitScenario /\ [][Next]_vars

----------------------------------------------------------------------------
(* analysis/visibility.py, allPassTimes                                    *)

RECURSIVE totalPassTime(_)
\* the loop of lines 194-196: totalPassTime += step[1] - step[0]
totalPassTime(passTimes) ==
    IF passTimes = <<>> THEN 0
    ELSE (Head(passTimes)[2] - Head(passTimes)[1])
             + totalPassTime(Tail(passTimes))

\* getStationPassTimes has returned passTimes for the station: add up and
\* append (lines 194-199)
allPassTimesAppend ==
    /\ pc = "done"
    /\ stationsProcessed < Len(stations)
    /\ totals' = Append(totals, <<station[1], station[2], totalPassTime(res)>>)
    /\ stationsProcessed' = stationsProcessed + 1
    /\ pc' = "appended"
    /\ UNCHANGED <<ecefData, station, idx, vis, seenPrev, res, currStartTime,
                   theta, alpha, stations>>
    /\ UNCHANGED <<keplerVars, diffVars, propVars, callVars, sweepVars>>

\* the next station of the for loop, and the call of getStationPassTimes
\* for it (lines 192-193)
allPassTimesNext ==
    /\ pc = "appended"
    /\ stationsProcessed < Len(stations)
    /\ station' = stations[stationsProcessed + 1]
    /\ idx' = 1
    /\ vis' = FALSE
    /\ seenPrev' = FALSE
    /\ res' = <<>>
    /\ currStartTime' = 0
    /\ theta' = 0
    /\ alpha' = 0
    /\ pc' = "scan"
    /\ UNCHANGED <<ecefData, gridVars>>
    /\ UNCHANGED <<keplerVars, diffVars, propVars, callVars, sweepVars>>

\* the for loop is exhausted: return res (line 201)
allPassTimesReturn ==
    /\ pc = "appended"
    /\ stationsProcessed = Len(stations)
    /\ pc' = "returned"
    /\ UNCHANGED <<ecefData, station, idx, vis, seenPrev, res, currStartTime,
                   theta, alpha, gridVars>>
    /\ UNCHANGED <<keplerVars, diffVars, propVars, callVars, sweepVars>>

\* the longest trajectory allPassTimes is called on
MaxGridSamples == 3

\* allPassTimes called on a trajectory, inside getStationPassTimes for the
\* first station of the grid
InitAll ==
    /\ SweepIdle
    /\ \E n \in 0..MaxGridSamples, g \in TimeGrids :
         \E ps \in [1..n -> Positions] : ecefData = Trajectory(ps, g)
    /\ stations = stationsGrid
    /\ stationsProcessed = 0
    /\ totals = <<>>
    /\ station = stations[1]
    /\ ScanEntry
    /\ KeplerIdle
    /\ DiffIdle
    /\ PropIdle
    /\ CallIdle

NextAll ==
    \/ ScanStep
    \/ ScanReturn
    \/ allPassTimesAppend
    \/ allPassTimesNext
    \/ allPassTimesReturn

SpecAll == InitAll /\ [][NextAll]_vars

----------------------------------------------------------------------------
(* main.py, passTimes: the sweep of getStationPassTimes over the stations  *)

\* the locals of getStationPassTimes as lines 155-159 set them
NoScan ==
    [seenPrev |-> FALSE, res |-> <<>>, currStartTime |-> 0, theta |-> 0,
     alpha |-> 0]

\* locals that a scan takes over from the scan its thread ran before, as
\* module-level variables would be
scanEntryCarried(prev) == [prev EXCEPT !.res = <<>>]

\* the locals of getStationPassTimes at entry, whatever the locals prev of
\* the scan its thread ran before were
scanEntryOf(prev) == NoScan

\* the body of the for loop (lines 161-170) on the locals loc, v being
\* isVisible of the sample and ang its elevation and azimuth
scanStepWith(loc, step, st, v, ang) ==
    IF v /\ ~loc.seenPrev
    THEN [loc EXCEPT !.currStartTime = step[3], !.seenPrev = TRUE,
                     !.theta = ang[1], !.alpha = ang[2]]
    ELSE IF setDetected(v, loc.seenPrev)
    THEN [loc EXCEPT !.res = Append(@, passRecord(st, loc.currStartTime, step,
                                                  loc.theta, loc.alpha)),
                     !.seenPrev = FALSE]
    ELSE loc

\* one iteration of the for loop of getStationPassTimes on the locals loc
scanStepOf(loc, step, st) ==
    scanStepWith(loc, step, st, isVisible(step[1], st[1], st[2], st[3]),
                 stationAngles(step[1], st[1], st[2]))

RECURSIVE scanFrom(_, _, _, _)
\* the iterations from sample i on, and the locals at return
scanFrom(loc, data, st, i) ==
    IF i > Len(data) THEN loc
    ELSE scanFrom(scanStepOf(loc, data[i], st), data, st, i + 1)

RECURSIVE sweepFrom(_, _, _, _, _)
\* lines 150-151 of main.py from station k on: passTimes +=
\* getStationPassTimes(ecefData, station), prev being the locals the scan
\* before ended with
sweepFrom(prev, data, stationList, k, passTimes) ==
    IF k > Len(stationList) THEN passTimes
    ELSE sweepFrom(scanFrom(scanEntryOf(prev), data, stationList[k], 1),
                   data, stationList, k + 1,
                   passTimes \o scanFrom(scanEntryOf(prev), data,
                                         stationList[k], 1).res)

\* the sequential sweep of passTimes (lines 149-151)
sequentialSweep(data, stationList) ==
    sweepFrom(NoScan, data, stationList, 1, <<>>)

\* the workers of a sweep
Workers == {1, 2}

\* worker w waits for a station
workerIdle(w) == locals[w].pc = "idle"

\* worker w calls getStationPassTimes for a station it owns, in any order
WorkerCall(w) ==
    /\ sweepPc = "sweep"
    /\ workerIdle(w)
    /\ \E k \in 1..Len(sweepStations) :
          /\ owner[k] = w
          /\ stationRes[k] = <<"pending">>
          /\ locals' = [locals EXCEPT ![w] =
                           [pc |-> "scan", k |-> k, idx |-> 1,
                            loc |-> scanEntryOf(locals[w].loc)]]
    /\ UNCHANGED <<sweepStations, owner, stationRes, sweepPc, ecefData>>
    /\ UNCHANGED <<station, idx, vis, seenPrev, res, currStartTime, theta,
                   alpha, pc>>
    /\ UNCHANGED <<keplerVars, diffVars, propVars, callVars, gridVars>>

\* one iteration of the for loop in the scan of worker w
WorkerStep(w) ==
    /\ sweepPc = "sweep"
    /\ locals[w].pc = "scan"
    /\ locals[w].idx <= Len(ecefData)
    /\ locals' = [locals EXCEPT
                     ![w].loc = scanStepOf(@, ecefData[locals[w].idx],
                                           sweepStations[locals[w].k]),
                     ![w].idx = @ + 1]
    /\ UNCHANGED <<sweepStations, owner, stationRes, sweepPc, ecefData>>
    /\ UNCHANGED <<station, idx, vis, seenPrev, res, currStartTime, theta,
                   alpha, pc>>
    /\ UNCHANGED <<keplerVars, diffVars, propVars, callVars, gridVars>>

\* the scan of worker w returns res, kept as the list of its station
WorkerReturn(w) ==
    /\ sweepPc = "sweep"
    /\ locals[w].pc = "scan"
    /\ locals[w].idx > Len(ecefData)
    /\ stationRes' = [stationRes EXCEPT ![locals[w].k] =
                         <<"returned", locals[w].loc.res>>]
    /\ locals' = [locals EXCEPT ![w].pc = "idle"]
    /\ UNCHANGED <<sweepStations, owner, sweepPc, ecefData>>
    /\ UNCHANGED <<station, idx, vis, seenPrev, res, currStartTime, theta,
                   alpha, pc>>
    /\ UNCHANGED <<keplerVars, diffVars, propVars, callVars, gridVars>>

RECURSIVE concatenated(_, _)
\* the lists of the stations from k on, one after the other
concatenated(lists, k) ==
    IF k > Len(lists) THEN <<>>
    ELSE lists[k][2] \o concatenated(lists, k + 1)

\* every scan has returned: the lists are joined in the order of the stations
SweepJoin ==
    /\ sweepPc = "sweep"
    /\ \A k \in 1..Len(sweepStations) : stationRes[k][1] = "returned"
    /\ sweepPc' = "joined"
    /\ res' = concatenated(stationRes, 1)
    /\ UNCHANGED <<sweepStations, owner, locals, stationRes, ecefData>>
    /\ UNCHANGED <<station, idx, vis, seenPrev, currStartTime, theta, alpha,
                   pc>>
    /\ UNCHANGED <<keplerVars, diffVars, propVars, callVars, gridVars>>

\* the longest trajectory swept
MaxSweepSamples == 2

\* the station lists of the model's sweeps: three stations, one of them twice
StationLists ==
    {<<stationsGrid[1], stationsGrid[2], <<51500, -100, 5000>>>>,
     <<<<0, 0, 0>>, stationsGrid[1], <<0, 0, 0>>, stationsGrid[4]>>}

\* passTimes with a station list, each station given to one of the workers
InitSweep ==
    /\ \E n \in 0..MaxSweepSamples :
         \E ps \in [1..n -> Positions] : ecefData = Trajectory(ps, <<500, 60>>)
    /\ sweepStations \in StationLists
    /\ owner \in [1..Len(sweepStations) -> Workers]
    /\ locals = [w \in Workers |-> [pc |-> "idle", k |-> 0, idx |-> 0,
                                    loc |-> NoScan]]
    /\ stationRes = [k \in 1..Len(sweepStations) |-> <<"pending">>]
    /\ sweepPc = "sweep"
    /\ station = <<0, 0, 0>>
    /\ idx = 0
    /\ vis = FALSE
    /\ seenPrev = FALSE
    /\ res = <<>>
    /\ currStartTime = 0
    /\ theta = 0
    /\ alpha = 0
    /\ pc = "idle"
    /\ KeplerIdle
    /\ DiffIdle
    /\ PropIdle
    /\ CallIdle
    /\ GridIdle

NextSweep ==
    \/ \E w \in Workers : WorkerCall(w)
    \/ \E w \in Workers : WorkerStep(w)
    \/ \E w \in Workers : WorkerReturn(w)
    \/ SweepJoin

SpecSweep == InitSweep /\ [][NextSweep]_vars

----------------------------------------------------------------------------
(* solveKepler.py                                                          *)

\* f: Kepler's equation rearranged to equal 0 (line 31)
f(E, M, e) == E - FMul(e, Sin(E)) - M

\* the tolerance 1e-8 of the loop test, in the model's resolution: two
\* units, as 1e-8 is above the rounding error of f in double precision
Tolerance == 2

\* the loop test of line 52 without abs
aboveToleranceSigned(residual) == residual > Tolerance

\* the loop test of line 52 on the value of f(E, M, e)
aboveTolerance(residual) == Abs(residual) > Tolerance

\* the denominator of line 53
newtonSlope(E, e) == Scale - FMul(e, Cos(E))

\* the update of line 53, given the value of f and a slope that is not 0
newtonUpdate(E, residual, slope) == E - FDiv(residual, slope)

\* the first guess (lines 46-49)
firstGuess(e, M) == IF e > 800 THEN PI ELSE M

\* the largest |E| the model follows
MaxAnomaly == 100000

\* the while loop stops at E: the test fails, the division raises, or the
\* next E is beyond MaxAnomaly
loopStops(E, residual, slope) ==
    \/ ~aboveTolerance(residual)
    \/ slope = 0
    \/ Abs(newtonUpdate(E, residual, slope)) > MaxAnomaly

\* the values of E the while loop takes from E on, added to seen
RECURSIVE solverOrbit(_, _, _, _)
solverOrbit(E, M, e, seen) ==
    IF E \in seen THEN seen
    ELSE IF loopStops(E, f(E, M, e), newtonSlope(E, e)) THEN seen \cup {E}
    ELSE solverOrbit(newtonUpdate(E, f(E, M, e), newtonSlope(E, e)), M, e,
                     seen \cup {E})

\* the calls solveKepler(e, M) of the model, as <<e, M>>: eccentricities of
\* elliptic orbits up to 0.99 and eccentricities e >= 1 with a grid of 26
\* mean anomalies over [0, 2*pi), and two inputs on which the loop of the
\* source does not end, solveKepler(1.5, 10.75) and solveKepler(3.0, -2.25)
KeplerInputs ==
    ({0, 100, 300, 500, 800, 801, 900, 990, 1000, 1500, 2000, 3000}
       \X {k * 250 : k \in 0..25})
    \cup { <<1500, 10750>>, <<3000, -2250>> }

\* f and the slope at every E the loop takes on the model's inputs,
\* evaluated once: the set of <<e, M, E, <<f(E, M, e), newtonSlope(E, e)>>>>
SolverTable ==
    UNION { { <<in[1], in[2], E,
                <<f(E, in[2], in[1]), newtonSlope(E, in[1])>>>> :
                E \in solverOrbit(firstGuess(in[1], in[2]), in[2], in[1], {}) } :
            in \in KeplerInputs }

\* <<f(E, M, e), newtonSlope(E, e)>>
solverRow(E, M, e) ==
    IF \E t \in SolverTable : t[1] = e /\ t[2] = M /\ t[3] = E
    THEN (CHOOSE t \in SolverTable :
              t[1] = e /\ t[2] = M /\ t[3] = E)[4]
    ELSE <<f(E, M, e), newtonSlope(E, e)>>

\* one pass of the while loop whose test holds (lines 52-53); the division
\* raises ZeroDivisionError on a slope of 0
KeplerIterate ==
    /\ kepPc = "loop"
    /\ aboveTolerance(solverRow(kepE, kepM, kepEcc)[1])
    /\ IF solverRow(kepE, kepM, kepEcc)[2] = 0
       THEN /\ kepPc' = "ZeroDivisionError"
            /\ UNCHANGED kepE
       ELSE IF loopStops(kepE, solverRow(kepE, kepM, kepEcc)[1],
                         solverRow(kepE, kepM, kepEcc)[2])
       THEN /\ kepPc' = "out of range"
            /\ UNCHANGED kepE
       ELSE /\ kepE' = newtonUpdate(kepE, solverRow(kepE, kepM, kepEcc)[1],
                                    solverRow(kepE, kepM, kepEcc)[2])
            /\ UNCHANGED kepPc
    /\ UNCHANGED <<kepEcc, kepM>>
    /\ UNCHANGED <<passVars, diffVars, propVars, callVars, gridVars,
                   sweepVars>>

\* the loop test fails: return E (lines 52 and 55)
KeplerReturn ==
    /\ kepPc = "loop"
    /\ ~aboveTolerance(solverRow(kepE, kepM, kepEcc)[1])
    /\ kepPc' = "returned"
    /\ UNCHANGED <<kepEcc, kepM, kepE>>
    /\ UNCHANGED <<passVars, diffVars, propVars, callVars, gridVars,
                   sweepVars>>

\* solveKepler(e, M) is called: E is the first guess (lines 46-49)
InitKepler ==
    /\ SweepIdle
    /\ \E in \in KeplerInputs :
         /\ kepEcc = in[1]
         /\ kepM = in[2]
         /\ kepE = firstGuess(in[1], in[2])
    /\ kepPc = "loop"
    /\ PassIdle
    /\ DiffIdle
    /\ PropIdle
    /\ CallIdle
    /\ GridIdle

NextKepler == KeplerIterate \/ KeplerReturn

SpecKepler == InitKepler /\ [][NextKepler]_vars

\* the interpreter keeps running the function: a step that can be taken is
\* taken
SpecKeplerFair ==
    SpecKepler /\ WF_vars(KeplerIterate) /\ WF_vars(KeplerReturn)

----------------------------------------------------------------------------
(* converters/eci2ecef.py and analysis/differences.py.  ECI states are in  *)
(* canonical units with resolution 1/Scale: the length unit is the Earth   *)
(* radius and the time unit makes GM = 1; timestamps are whole seconds.    *)

\* the reference epoch of the timestamps, seconds (satelliteSimulator/data.py)
BASETIME == 0

\* the Earth's rotation rate, radians per time unit (satelliteSimulator/data.py)
EARTHRR == 59

\* numpy.cross
Cross(a, b) ==
    <<RDiv(a[2] * b[3] - a[3] * b[2], Scale),
      RDiv(a[3] * b[1] - a[1] * b[3], Scale),
      RDiv(a[1] * b[2] - a[2] * b[1], Scale)>>

\* calculateGAST: the Greenwich apparent sidereal time, radians
calculateGAST(time) ==
    Radians(280461
            + RDiv(360986 * RDiv((time - BASETIME) * Scale, 60 * 60 * 24),
                   Scale))

\* calculateECEFPos: the rotation of R by the angle GAST about the z axis
calculateECEFPos(R, GAST) ==
    <<FMul(Cos(GAST), R[1]) + FMul(Sin(GAST), R[2]),
      -FMul(Sin(GAST), R[1]) + FMul(Cos(GAST), R[2]),
      R[3]>>

\* calculateECEFVel
calculateECEFVel(R, V, GAST) ==
    <<-FMul(EARTHRR, FMul(Sin(GAST), R[1]) - FMul(Cos(GAST), R[2]))
         + FMul(Cos(GAST), V[1]) + FMul(Sin(GAST), V[2]),
      -FMul(EARTHRR, FMul(Cos(GAST), R[1]) + FMul(Sin(GAST), R[2]))
         - FMul(Sin(GAST), V[1]) + FMul(Cos(GAST), V[2]),
      V[3]>>

\* ECI2ECEF: <<R, V, time>> in the Earth-fixed frame
ECI2ECEF(R, V, time) ==
    <<calculateECEFPos(R, calculateGAST(time)),
      calculateECEFVel(R, V, calculateGAST(time)), time>>

\* calculateVectorDiff: X2 - X1
calculateVectorDiff(X1, X2) == VecSub(X2, X1)

\* calculateH: the height unit vector
calculateH(R) == VecUnit(R, Norm(R))

\* calculateC: the cross track unit vector (R and V not collinear)
calculateC(R, V) == VecUnit(Cross(R, V), Norm(Cross(R, V)))

\* an along track vector with the factors of the cross product exchanged
calculateLReversed(C, H) == Cross(H, C)

\* calculateL: the along track unit vector
calculateL(C, H) == Cross(C, H)

\* calculateBasis: <<H, C, L>>
calculateBasis(R, V) ==
    <<calculateH(R), calculateC(R, V),
      calculateL(calculateC(R, V), calculateH(R))>>

\* projectOntoBasis: the components of dX on the unit vectors x, y, z
projectOntoBasis(x, y, z, dX) == <<Dot(dX, x), Dot(dX, y), Dot(dX, z)>>

\* HCLDiff of X1 = <<R1, V1>> and X2 = <<R2, V2>>
HCLDiff(X1, X2) ==
    LET basis == calculateBasis(X1[1], X1[2])
    IN  projectOntoBasis(basis[1], basis[2], basis[3],
                         calculateVectorDiff(X1[1], X2[1]))

\* ENUDiff of X1 and X2 at the station <<lat, lon>> and the time
ENUDiff(X1, X2, st, time) ==
    LET enu == calculateENUBasis(st[1], st[2])
    IN  projectOntoBasis(enu[1], enu[2], enu[3],
                         calculateVectorDiff(ECI2ECEF(X1[1], X1[2], time)[1],
                                             ECI2ECEF(X2[1], X2[2], time)[1]))

----------------------------------------------------------------------------
(* main.py, difference                                                     *)

\* ECI states <<R, V>> of the model's trajectories
StatePool ==
    { <<<<1100, 0, 0>>, <<0, 950, 0>>>>,
      <<<<800, 0, 800>>, <<0, 900, 0>>>>,
      <<<<1000, 500, 200>>, <<-300, 800, 300>>>> }

\* the arguments of the model's calls: --hcl, or --enu lat lon (degrees)
DiffArgsPool == { <<"hcl">>, <<"enu", 51500, -100>> }

\* the time grids of the two files: the same grid, or grids half a step apart
DiffGrids == { <<0, 60>>, <<30, 60>> }

\* the longest file read
MaxRows == 2

\* the timestamps of the model's files
DiffTimes == { g[1] + (k - 1) * g[2] : g \in DiffGrids, k \in 1..MaxRows }

\* lines 97 and 101: the difference of the samples r and k
sampleDiff(r, k, args) ==
    IF args[1] = "hcl"
    THEN HCLDiff(<<r[1], r[2]>>, <<k[1], k[2]>>)
    ELSE ENUDiff(<<r[1], r[2]>>, <<k[1], k[2]>>, <<args[2], args[3]>>, r[3])

\* sampleDiff of the model's states, times and arguments, evaluated once:
\* the set of <<r, <<R, V>> of k, args, sampleDiff>>
DiffTable ==
    { <<<<X1[1], X1[2], t>>, X2, args,
        sampleDiff(<<X1[1], X1[2], t>>, <<X2[1], X2[2], t>>, args)>> :
        X1 \in StatePool, X2 \in StatePool, t \in DiffTimes,
        args \in DiffArgsPool }

\* sampleDiff(r, k, args)
sampleDiffOf(r, k, args) ==
    IF \E d \in DiffTable :
         d[1] = r /\ d[2] = <<k[1], k[2]>> /\ d[3] = args
    THEN (CHOOSE d \in DiffTable :
              d[1] = r /\ d[2] = <<k[1], k[2]>> /\ d[3] = args)[4]
    ELSE sampleDiff(r, k, args)

\* zip stops one pair before the shorter list is exhausted
zipExhaustedEarly(n1, n2, k) == k >= n1 \/ k >= n2

\* zip(set1, set2) is exhausted at position k: either list has no k-th item
zipExhausted(n1, n2, k) == k > n1 \/ k > n2

\* one iteration of the for loop over zip(set1, set2) (lines 96-98, 100-102):
\* diffs.append([r[2]] + diff)
DiffPair ==
    /\ diffPc = "zip"
    /\ ~zipExhausted(Len(set1), Len(set2), zipK)
    /\ diffs' = Append(diffs, <<set1[zipK][3]>>
                                \o sampleDiffOf(set1[zipK], set2[zipK],
                                                diffArgs))
    /\ zipK' = zipK + 1
    /\ UNCHANGED <<set1, set2, diffArgs, outfile, diffPc>>
    /\ UNCHANGED <<passVars, keplerVars, propVars, callVars, gridVars,
                   sweepVars>>

\* zip is exhausted: writeData(diffs, args.outfile) (line 104); a row of
\* diffs is a flat list, which flattenTuple writes item by item
DiffWrite ==
    /\ diffPc = "zip"
    /\ zipExhausted(Len(set1), Len(set2), zipK)
    /\ outfile' = diffs
    /\ diffPc' = "written"
    /\ UNCHANGED <<set1, set2, diffArgs, zipK, diffs>>
    /\ UNCHANGED <<passVars, keplerVars, propVars, callVars, gridVars,
                   sweepVars>>

\* the list readECIData returns for a file with the states xs on the grid g
EciFile(xs, g) ==
    [k \in 1..Len(xs) |-> <<xs[k][1], xs[k][2], g[1] + (k - 1) * g[2]>>]

\* difference(args) is called: both files are read, diffs = [] (lines 90-93)
InitDiff ==
    /\ SweepIdle
    /\ \E n1 \in 0..MaxRows, n2 \in 0..MaxRows, g1 \in DiffGrids,
          g2 \in DiffGrids :
         \E xs1 \in [1..n1 -> StatePool], xs2 \in [1..n2 -> StatePool] :
            /\ set1 = EciFile(xs1, g1)
            /\ set2 = EciFile(xs2, g2)
    /\ diffArgs \in DiffArgsPool
    /\ zipK = 1
    /\ diffs = <<>>
    /\ outfile = <<>>
    /\ diffPc = "zip"
    /\ PassIdle
    /\ KeplerIdle
    /\ PropIdle
    /\ CallIdle
    /\ GridIdle

NextDiff == DiffPair \/ DiffWrite

SpecDiff == InitDiff /\ [][NextDiff]_vars

----------------------------------------------------------------------------
(* propogation/rk4.py                                                      *)

\* the gravitational parameter: 1 in canonical units (satelliteSimulator/data.py)
GM == 1000

\* the scale length of the gravity field expansion: one Earth radius
\* (satelliteSimulator/data.py)
AEGMA96 == 1000

\* the normalised degree 2 zonal coefficient, in units of 1/(Scale*Scale):
\* -0.000484 (satelliteSimulator/data.py)
C20 == -484

\* numpy: a + b
VecAdd(a, b) == <<a[1] + b[1], a[2] + b[2], a[3] + b[3]>>

\* numpy: s * a for a float s
VecScale(s, a) == <<FMul(s, a[1]), FMul(s, a[2]), FMul(s, a[3])>>

\* x**3
Cube(x) == FMul(FMul(x, x), x)

\* monopoleDiff: the acceleration of a point mass at R, r0 = |R|
monopoleDiff(r0, R) ==
    <<-FDiv(FMul(GM, R[1]), Cube(r0)), -FDiv(FMul(GM, R[2]), Cube(r0)),
      -FDiv(FMul(GM, R[3]), Cube(r0))>>

\* monopoleK: KR *= (0.5*h**2)
monopoleK(R, h) ==
    VecScale(FMul(500, FMul(h, h)), monopoleDiff(Norm(R), R))

\* kdδ: the Kronecker delta of m and 0
kdDelta(m) == IF m = 0 THEN 1 ELSE 0

\* math.factorial
RECURSIVE Factorial(_)
Factorial(n) == IF n <= 1 THEN 1 ELSE n * Factorial(n - 1)

\* denormaliseCoefficient: c / sqrt(num / den)
denormaliseCoefficient(c, n, m) ==
    FDiv(c, FSqrt(FDiv(Factorial(n + m) * Scale,
                       Factorial(n - m) * (2 * n + 1) * (2 - kdDelta(m))
                         * Scale)))

\* j2diff: the acceleration with the J2 correction; c, factor and term are
\* in units of 1/(Scale*Scale) and term is rounded to the resolution 1/Scale
j2diff(R, r0, c, a) ==
    LET factor == FMul(FMul(FMul(1500, GM),
                            FDiv(FMul(a, a), FMul(Cube(r0), FMul(r0, r0)))),
                       c)
        ratio == FDiv(5 * FMul(R[3], R[3]), FMul(r0, r0))
        term(x, w) == RDiv(FMul(FMul(factor, x), w - ratio), Scale)
    IN  <<-FDiv(FMul(GM, R[1]), Cube(r0)) + term(R[1], Scale),
          -FDiv(FMul(GM, R[2]), Cube(r0)) + term(R[2], Scale),
          -FDiv(FMul(GM, R[3]), Cube(r0)) + term(R[3], 3 * Scale)>>

\* j2k
j2k(R, h) ==
    VecScale(FMul(500, FMul(h, h)),
             j2diff(R, Norm(R), denormaliseCoefficient(C20, 2, 0), AEGMA96))

\* the call k(R, h) of rk4PropogationStep for k = monopoleK or k = j2k
kOf(k, R, h) == IF k = "monopoleK" THEN monopoleK(R, h) ELSE j2k(R, h)

\* calculateRk2: R + h/2*V + K1R/4
calculateRk2(K1R, V, R, h) ==
    <<R[1] + FMul(RDiv(h, 2), V[1]) + RDiv(K1R[1], 4),
      R[2] + FMul(RDiv(h, 2), V[2]) + RDiv(K1R[2], 4),
      R[3] + FMul(RDiv(h, 2), V[3]) + RDiv(K1R[3], 4)>>

\* calculateRk4: R + h*V + K3R
calculateRk4(K3R, V, R, h) ==
    <<R[1] + FMul(h, V[1]) + K3R[1], R[2] + FMul(h, V[2]) + K3R[2],
      R[3] + FMul(h, V[3]) + K3R[3]>>

\* calculateP of rk4.py: 1/3*(k1 + k2 + k3)
calculatePRk4(k1, k2, k3) ==
    <<FMul(RDiv(Scale, 3), k1[1] + k2[1] + k3[1]),
      FMul(RDiv(Scale, 3), k1[2] + k2[2] + k3[2]),
      FMul(RDiv(Scale, 3), k1[3] + k2[3] + k3[3])>>

\* calculateQ with the four k vectors weighted alike
calculateQUnweighted(k1, k2, k3, k4) ==
    <<FMul(RDiv(Scale, 3), k1[1] + k2[1] + k3[1] + k4[1]),
      FMul(RDiv(Scale, 3), k1[2] + k2[2] + k3[2] + k4[2]),
      FMul(RDiv(Scale, 3), k1[3] + k2[3] + k3[3] + k4[3])>>

\* calculateQ of rk4.py: 1/3*(k1 + 2*k2 + 2*k3 + k4)
calculateQRk4(k1, k2, k3, k4) ==
    <<FMul(RDiv(Scale, 3), k1[1] + 2 * k2[1] + 2 * k3[1] + k4[1]),
      FMul(RDiv(Scale, 3), k1[2] + 2 * k2[2] + 2 * k3[2] + k4[2]),
      FMul(RDiv(Scale, 3), k1[3] + 2 * k2[3] + 2 * k3[3] + k4[3])>>

\* lines 164-172 of rk4PropogationStep: <<R + h*V + P, V + Q/h>>
rk4Advance(R, V, h, P, Q) ==
    <<<<R[1] + FMul(h, V[1]) + P[1], R[2] + FMul(h, V[2]) + P[2],
        R[3] + FMul(h, V[3]) + P[3]>>,
      <<V[1] + FDiv(Q[1], h), V[2] + FDiv(Q[2], h), V[3] + FDiv(Q[3], h)>>>>

\* rk4PropogationStep: <<R, V>> after timestep (timestep is not 0)
rk4PropogationStep(R, V, timestep, k) ==
    LET k1 == kOf(k, R, timestep)
        k2 == kOf(k, calculateRk2(k1, V, R, timestep), timestep)
        k3 == kOf(k, calculateRk2(k2, V, R, timestep), timestep)
        k4 == kOf(k, calculateRk4(k3, V, R, timestep), timestep)
    IN  rk4Advance(R, V, timestep, calculatePRk4(k1, k2, k3),
                   calculateQRk4(k1, k2, k3, k4))

----------------------------------------------------------------------------
(* converters/cart2kep.py                                                  *)

\* calculateUnitOrbitNormal (the norm of h is not 0)
calculateUnitOrbitNormal(h) == VecUnit(h, Norm(h))

\* calculateInclination
calculateInclination(W) ==
    normalisedAtan2(FSqrt(FMul(W[1], W[1]) + FMul(W[2], W[2])), W[3])

\* calculateRAAN
calculateRAAN(W) == normalisedAtan2(W[1], -W[2])

\* vectorLength
vectorLength(vector) == Norm(vector)

\* calculateP of cart2kep.py: the semi-latus rectum h**2/GM, h the norm
calculatePOrbit(h) == FDiv(FMul(h, h), GM)

\* calculateSemiMajAxis (the orbit is not parabolic)
calculateSemiMajAxis(R, V) ==
    FDiv(Scale, FDiv(2 * Scale, vectorLength(R))
                  - FDiv(FMul(vectorLength(V), vectorLength(V)), GM))

\* calculateEccentricity (p <= a)
calculateEccentricity(a, p) == FSqrt(Scale - FDiv(p, a))

\* calculateMeanMotion (a > 0)
calculateMeanMotion(a) == FSqrt(FDiv(GM, Cube(a)))

\* calculateE of cart2kep.py: the eccentric anomaly
calculateEAnom(R, V, a, n) ==
    normalisedAtan2(FDiv(Dot(R, V), FMul(FMul(a, a), n)),
                    Scale - FDiv(Norm(R), a))

\* calculateU (sin(i) is not 0)
calculateU(R, i, Omega) ==
    normalisedAtan2(FDiv(R[3], Sin(i)),
                    FMul(R[1], Cos(Omega)) + FMul(R[2], Sin(Omega)))

\* calculateTrueAnom
calculateTrueAnom(E, e) ==
    normalisedAtan2(FMul(FSqrt(Scale - FMul(e, e)), Sin(E)), Cos(E) - e)

\* calculateArgofPer
calculateArgofPer(u, nu) == u - nu

\* cart2kep (R x V is not 0)
cart2kep(R, V) ==
    LET W == calculateUnitOrbitNormal(Cross(R, V))
        i == calculateInclination(W)
        Omega == calculateRAAN(W)
        a == calculateSemiMajAxis(R, V)
        e == calculateEccentricity(a, calculatePOrbit(Norm(Cross(R, V))))
        nu == calculateTrueAnom(
                  calculateEAnom(R, V, a, calculateMeanMotion(a)), e)
        omega == calculateArgofPer(calculateU(R, i, Omega), nu)
    IN  [a |-> a, e |-> e, i |-> normaliseAngle(i),
         Omega |-> normaliseAngle(Omega), omega |-> normaliseAngle(omega),
         nu |-> normaliseAngle(nu)]

\* the exception cart2kep raises on lists of Python floats, "none" if it
\* returns: 2/r and 1/(...) of calculateSemiMajAxis divide by zero, math.sqrt
\* of calculateEccentricity and calculateMeanMotion rejects a negative
\* number, R[2]/math.sin(i) of calculateU divides by zero (R x V is not 0)
cart2kepRaises(R, V) ==
    IF Norm(R) = 0
          \/ FDiv(2 * Scale, Norm(R)) = FDiv(FMul(Norm(V), Norm(V)), GM)
        THEN "ZeroDivisionError"
    ELSE IF Scale - FDiv(calculatePOrbit(Norm(Cross(R, V))),
                         calculateSemiMajAxis(R, V)) < 0
             \/ FDiv(GM, Cube(calculateSemiMajAxis(R, V))) < 0
        THEN "ValueError"
    ELSE IF Sin(calculateInclination(
                    calculateUnitOrbitNormal(Cross(R, V)))) = 0
        THEN "ZeroDivisionError"
    ELSE "none"

----------------------------------------------------------------------------
(* converters/kep2cart.py                                                  *)

\* calculateP of kep2cart.py: the Gaussian vector P
calculatePGauss(Omega, omega, i) ==
    <<FMul(Cos(Omega), Cos(omega)) - FMul(FMul(Sin(Omega), Cos(i)), Sin(omega)),
      FMul(Sin(Omega), Cos(omega)) + FMul(FMul(Cos(Omega), Cos(i)), Sin(omega)),
      FMul(Sin(i), Sin(omega))>>

\* calculateQ of kep2cart.py: the Gaussian vector Q
calculateQGauss(Omega, omega, i) ==
    <<-FMul(Cos(Omega), Sin(omega)) - FMul(FMul(Sin(Omega), Cos(i)), Cos(omega)),
      FMul(FMul(Cos(Omega), Cos(i)), Cos(omega)) - FMul(Sin(Omega), Sin(omega)),
      FMul(Sin(i), Cos(omega))>>

\* calculateGausVects
calculateGausVects(Omega, omega, i) ==
    <<calculatePGauss(Omega, omega, i), calculateQGauss(Omega, omega, i)>>

\* calculateSemLatRect: a*(1-e**2)
calculateSemLatRect(a, e) == FMul(a, Scale - FMul(e, e))

\* calculateRadDist: p/(1 + e*cos(nu))
calculateRadDist(p, e, nu) == FDiv(p, Scale + FMul(e, Cos(nu)))

\* the sum x*P + y*Q of the two Gaussian vectors
gaussCombination(x, y, P, Q) ==
    <<FMul(x, P[1]) + FMul(y, Q[1]),
      FMul(x, P[2]) + FMul(y, Q[2]),
      FMul(x, P[3]) + FMul(y, Q[3])>>

\* calculatePosition
calculatePosition(P, Q, r, nu) ==
    gaussCombination(FMul(r, Cos(nu)), FMul(r, Sin(nu)), P, Q)

\* a velocity whose component along Q has lost the factor g = sqrt(1-e**2)
calculateVelocityNoG(nu, a, e, r, P, Q) ==
    LET cosE == FDiv(FMul(r, Cos(nu)), a) + e
        sinE == FDiv(FMul(r, Sin(nu)), FMul(a, FSqrt(Scale - FMul(e, e))))
        fv == FDiv(FSqrt(FMul(a, GM)), r)
    IN  gaussCombination(-FMul(fv, sinE), FMul(fv, cosE), P, Q)

\* calculateVelocity
calculateVelocity(nu, a, e, r, P, Q) ==
    LET cosE == FDiv(FMul(r, Cos(nu)), a) + e
        sinE == FDiv(FMul(r, Sin(nu)), FMul(a, FSqrt(Scale - FMul(e, e))))
        fv == FDiv(FSqrt(FMul(a, GM)), r)
        gv == FSqrt(Scale - FMul(e, e))
    IN  gaussCombination(-FMul(fv, sinE), FMul(FMul(fv, gv), cosE), P, Q)

\* kep2cart
kep2cart(kep) ==
    LET PQ == calculateGausVects(kep.Omega, kep.omega, kep.i)
        r == calculateRadDist(calculateSemLatRect(kep.a, kep.e), kep.e, kep.nu)
    IN  <<calculatePosition(PQ[1], PQ[2], r, kep.nu),
          calculateVelocity(kep.nu, kep.a, kep.e, r, PQ[1], PQ[2])>>

----------------------------------------------------------------------------
(* propogation/keplerianPropogation.py                                     *)

\* the most Newton steps followed for one call of solveKepler
MaxNewton == 30

\* the loop of solveKepler from the guess E: <<"return", E>> when the loop
\* test fails, <<"ZeroDivisionError", E>> when line 53 divides by zero, and
\* <<"in solveKepler", E>> when the loop is still running after n more steps
RECURSIVE solveKeplerFrom(_, _, _, _)
solveKeplerFrom(E, M, e, n) ==
    IF ~aboveTolerance(f(E, M, e)) THEN <<"return", E>>
    ELSE IF newtonSlope(E, e) = 0 THEN <<"ZeroDivisionError", E>>
    ELSE IF n = 0 THEN <<"in solveKepler", E>>
    ELSE solveKeplerFrom(newtonUpdate(E, f(E, M, e), newtonSlope(E, e)), M, e,
                         n - 1)

\* solveKepler(e, M) as a function of its arguments
solveKepler(e, M) == solveKeplerFrom(firstGuess(e, M), M, e, MaxNewton)

\* calculateEccentAnom: the outcome of solveKepler(kep['e'], Mi) (e < 1)
calculateEccentAnom(r, kep, dt) ==
    LET E0 == normalisedAtan2(
                  FDiv(FMul(r, Sin(kep.nu)),
                       FMul(kep.a, FSqrt(Scale - FMul(kep.e, kep.e)))),
                  FDiv(FMul(r, Cos(kep.nu)), kep.a) + kep.e)
        M0 == E0 - FMul(kep.e, Sin(E0))
    IN  solveKepler(kep.e, M0 + FMul(FSqrt(FDiv(GM, Cube(kep.a))), dt))

\* calculateNewPosition: np.dot(x, P) + np.dot(y, Q)
calculateNewPosition(Ei, kep) ==
    VecAdd(VecScale(FMul(kep.a, Cos(Ei) - kep.e),
                    calculateGausVects(kep.Omega, kep.omega, kep.i)[1]),
           VecScale(FMul(FMul(kep.a, FSqrt(Scale - FMul(kep.e, kep.e))),
                         Sin(Ei)),
                    calculateGausVects(kep.Omega, kep.omega, kep.i)[2]))

\* calculateNewVelocity: np.dot(xdot, P) + np.dot(ydot, Q)
calculateNewVelocity(Ei, kep) ==
    LET r == FMul(kep.a, Scale - FMul(kep.e, Cos(Ei)))
    IN  VecAdd(VecScale(-FDiv(FMul(FSqrt(FMul(kep.a, GM)), Sin(Ei)), r),
                        calculateGausVects(kep.Omega, kep.omega, kep.i)[1]),
               VecScale(FDiv(FMul(FMul(FSqrt(FMul(kep.a, GM)),
                                       FSqrt(Scale - FMul(kep.e, kep.e))),
                                  Cos(Ei)),
                             r),
                        calculateGausVects(kep.Omega, kep.omega, kep.i)[2]))

\* calculateOrbitStep, when cart2kep and solveKepler return
calculateOrbitStep(R, V, dt) ==
    LET kep == cart2kep(R, V)
        Ei == calculateEccentAnom(Norm(R), kep, dt)[2]
    IN  <<calculateNewPosition(Ei, kep), calculateNewVelocity(Ei, kep)>>

\* how calculateOrbitStep ends: "return", the exception of cart2kep, or the
\* outcome of solveKepler
orbitStepOutcome(R, V, dt) ==
    IF cart2kepRaises(R, V) # "none" THEN cart2kepRaises(R, V)
    ELSE calculateEccentAnom(Norm(R), cart2kep(R, V), dt)[1]

----------------------------------------------------------------------------
(* propogateOrbit, rk4MonoPropogation and rk4j2Propogation: the loops.     *)

\* a loop over range(steps - 1)
rangeExhaustedEarly(at, steps) == at + 1 >= steps

\* range(steps) has no value left at the position at
rangeExhausted(at, steps) == at >= steps

\* a timestamp that counts the steps from 0: baseTime + timestep*step
stepTimeFromZero(baseTime, timestep, at) == baseTime + timestep * at

\* the time appended in iteration at: baseTime + timestep*(step+1)
stepTime(baseTime, timestep, at) == baseTime + timestep * (at + 1)

\* a loop body that stores the new state into the lists newR and newV refer
\* to, which the last entry of results holds, before it appends
appendStepInPlace(stepped) ==
    /\ newR' = stepped[1]
    /\ newV' = stepped[2]
    /\ results' = Append([results EXCEPT ![Len(results)] =
                              <<stepped[1], stepped[2], @[3]>>],
                         <<stepped[1], stepped[2],
                           stepTime(propArgs.baseTime, propArgs.timestep,
                                    propStep)>>)
    /\ propStep' = propStep + 1
    /\ UNCHANGED propPc

\* results.append((newR, newV, baseTime + timestep*(step+1)))
appendStep(stepped) ==
    /\ newR' = stepped[1]
    /\ newV' = stepped[2]
    /\ results' = Append(results,
                         <<stepped[1], stepped[2],
                           stepTime(propArgs.baseTime, propArgs.timestep,
                                    propStep)>>)
    /\ propStep' = propStep + 1
    /\ UNCHANGED propPc

\* one iteration of the loop of propogateOrbit (lines 26-28); when
\* calculateOrbitStep does not return, its exception leaves propogateOrbit
\* or solveKepler stays in its loop
propogateOrbitStep ==
    /\ propAlg = "propogateOrbit" /\ propPc = "loop"
    /\ ~rangeExhausted(propStep, propArgs.steps)
    /\ IF orbitStepOutcome(newR, newV, propArgs.timestep) = "return"
          THEN appendStep(calculateOrbitStep(newR, newV, propArgs.timestep))
          ELSE /\ propPc' = orbitStepOutcome(newR, newV, propArgs.timestep)
               /\ UNCHANGED <<results, newR, newV, propStep>>
    /\ UNCHANGED <<propAlg, propArgs>>
    /\ UNCHANGED <<passVars, keplerVars, diffVars, callVars, gridVars,
                   sweepVars>>

\* return results (line 29)
propogateOrbitReturn ==
    /\ propAlg = "propogateOrbit" /\ propPc = "loop"
    /\ rangeExhausted(propStep, propArgs.steps)
    /\ propPc' = "returned"
    /\ UNCHANGED <<propAlg, propArgs, results, newR, newV, propStep>>
    /\ UNCHANGED <<passVars, keplerVars, diffVars, callVars, gridVars,
                   sweepVars>>

\* one iteration of the loop of rk4MonoPropogation (lines 195-197)
rk4MonoPropogationStep ==
    /\ propAlg = "rk4MonoPropogation" /\ propPc = "loop"
    /\ ~rangeExhausted(propStep, propArgs.steps)
    /\ appendStep(rk4PropogationStep(newR, newV, propArgs.timestep,
                                     "monopoleK"))
    /\ UNCHANGED <<propAlg, propArgs>>
    /\ UNCHANGED <<passVars, keplerVars, diffVars, callVars, gridVars,
                   sweepVars>>

\* return results (line 198)
rk4MonoPropogationReturn ==
    /\ propAlg = "rk4MonoPropogation" /\ propPc = "loop"
    /\ rangeExhausted(propStep, propArgs.steps)
    /\ propPc' = "returned"
    /\ UNCHANGED <<propAlg, propArgs, results, newR, newV, propStep>>
    /\ UNCHANGED <<passVars, keplerVars, diffVars, callVars, gridVars,
                   sweepVars>>

\* one iteration of the loop of rk4j2Propogation (lines 297-299)
rk4j2PropogationStep ==
    /\ propAlg = "rk4j2Propogation" /\ propPc = "loop"
    /\ ~rangeExhausted(propStep, propArgs.steps)
    /\ appendStep(rk4PropogationStep(newR, newV, propArgs.timestep, "j2k"))
    /\ UNCHANGED <<propAlg, propArgs>>
    /\ UNCHANGED <<passVars, keplerVars, diffVars, callVars, gridVars,
                   sweepVars>>

\* return results (line 300)
rk4j2PropogationReturn ==
    /\ propAlg = "rk4j2Propogation" /\ propPc = "loop"
    /\ rangeExhausted(propStep, propArgs.steps)
    /\ propPc' = "returned"
    /\ UNCHANGED <<propAlg, propArgs, results, newR, newV, propStep>>
    /\ UNCHANGED <<passVars, keplerVars, diffVars, callVars, gridVars,
                   sweepVars>>

\* the most steps a call asks for
MaxSteps == 3

\* initial states <<R, V>> in Earth radii and canonical speed units: two
\* inclined ellipses, a circular equatorial orbit and a hyperbola
OrbitPool ==
    {<<<<800, 0, 800>>, <<0, 900, 0>>>>,
     <<<<1100, 0, 200>>, <<100, 700, 600>>>>,
     <<<<1100, 0, 0>>, <<0, 950, 0>>>>,
     <<<<1100, 0, 0>>, <<0, 1500, 300>>>>}

\* the step sizes (not 0) and the start times, in canonical time units
TimeSteps == {100, 500, -100}

BaseTimes == {0, 5000}

\* the three propagators main.propogate chooses from
Propagators == {"propogateOrbit", "rk4MonoPropogation", "rk4j2Propogation"}

\* a call alg(R, V, timestep, steps, baseTime), up to the for statement
InitProp ==
    /\ SweepIdle
    /\ propAlg \in Propagators
    /\ \E rv \in OrbitPool, h \in TimeSteps, n \in -1..MaxSteps,
          t0 \in BaseTimes :
          propArgs = [R |-> rv[1], V |-> rv[2], timestep |-> h, steps |-> n,
                      baseTime |-> t0]
    /\ results = <<<<propArgs.R, propArgs.V, propArgs.baseTime>>>>
    /\ newR = propArgs.R
    /\ newV = propArgs.V
    /\ propStep = 0
    /\ propPc = "loop"
    /\ PassIdle
    /\ KeplerIdle
    /\ DiffIdle
    /\ CallIdle
    /\ GridIdle

NextProp ==
    \/ propogateOrbitStep
    \/ propogateOrbitReturn
    \/ rk4MonoPropogationStep
    \/ rk4MonoPropogationReturn
    \/ rk4j2PropogationStep
    \/ rk4j2PropogationReturn

SpecProp == InitProp /\ [][NextProp]_vars

----------------------------------------------------------------------------
(* Calls of the pure functions of the package: the arguments are drawn     *)
(* from the sets below, and one action per function returns its result.    *)

\* the states <<R, V>> the functions on states are called with
CallStates ==
    OrbitPool \cup StatePool
    \cup {<<<<0, 1200, 300>>, <<700, 0, -500>>>>,
          <<<<900, -600, 400>>, <<300, 700, -400>>>>,
          <<<<-700, -900, -500>>, <<650, -400, 300>>>>}

\* the states cart2kep returns elements for
ElementStates == {rv \in CallStates : cart2kepRaises(rv[1], rv[2]) = "none"}

\* states of orbits singular for the extraction of the elements: circular and
\* inclined (r = 1, v = 1), parabolic (r = 2, v = 1), and equatorial
SingularStates ==
    {<<<<1000, 0, 0>>, <<0, 600, 800>>>>,
     <<<<2000, 0, 0>>, <<0, 600, 800>>>>,
     <<<<1100, 0, 0>>, <<0, 950, 0>>>>,
     <<<<0, 1200, 0>>, <<-800, 100, 0>>>>}

\* latitudes in [-90, 90] and longitudes in (-180, 180], degrees
Latitudes == {-90000, -45000, -1000, 0, 30000, 51500, 89000, 90000}

Longitudes == {-179000, -135000, -90000, -100, 0, 45000, 90000, 180000}

\* Earth-fixed positions (km) with x and y not both 0, on and off the axes
EcefPoints ==
    {R \in {-6378, -3000, 0, 3000, 6378} \X {-6378, -3000, 0, 1, 6378}
            \X {-5000, 0, 5000} : R[1] # 0 \/ R[2] # 0}

\* angles in 1/Scale radians, each one a float
FloatAngles ==
    {RoundFloat(x) : x \in {-20000, -12568, -6284, -3142, -500, -2, -1, 0, 1,
                            1571, 3142, 6280, 6283, 6284, 6288, 12568, 20000}}

\* numerator and denominator of normalisedAtan2
Atan2Arguments ==
    {yx \in {-1000, -1, 0, 1, 1000} \X {-1000, -1, 0, 1, 1000} :
        yx[1] # 0 \/ yx[2] # 0}

\* station latitudes strictly between the poles (the surface point, in whole
\* km, resolves a longitude up to about 80 degrees of latitude)
StationLatitudes == {-80000, -45000, -1000, 0, 30000, 51500, 70000}

\* the surface points of the stations
SurfacePoints ==
    {latLon2ecef(lat, lon) : lat \in StationLatitudes, lon \in Longitudes}

\* the longest list of positions given to getGroundTracks
MaxTrackPositions == 2

\* the lists of positions given to getGroundTracks
TrackPositions ==
    UNION {[1..n -> Positions] : n \in 0..MaxTrackPositions}

\* the station lists given to getGroundTracks
TrackStations ==
    {<<>>, <<<<0, 0, 0>>>>, <<<<51500, -100, 5000>>>>,
     <<<<0, 0, 0>>, <<51500, -100, 5000>>>>,
     <<<<51500, -100, 5000>>, <<0, 0, 0>>>>,
     <<stationsGrid[4], <<51500, -100, 5000>>, <<0, 0, 0>>>>}

\* the calls of the model, as <<function, arguments>>
Calls ==
    {<<"calculateBasis", rv>> : rv \in CallStates}
    \cup {<<"calculateENUBasis", <<lat, lon>>>> :
             lat \in Latitudes, lon \in Longitudes}
    \cup {<<"ecef2latlong", <<R>>>> : R \in EcefPoints \cup SurfacePoints}
    \cup {<<"getBasis", <<R>>>> : R \in SurfacePoints}
    \cup {<<"normaliseAngle", <<x>>>> : x \in FloatAngles}
    \cup {<<"normalisedAtan2", yx>> : yx \in Atan2Arguments}
    \cup {<<"cart2kep", rv>> : rv \in CallStates \cup SingularStates}
    \cup {<<"kep2cart", <<cart2kep(rv[1], rv[2])>>>> : rv \in ElementStates}
    \cup {<<"getGroundTracks", <<ps, sl>>>> :
             ps \in TrackPositions, sl \in TrackStations}

\* the frame of a returning call
callReturns(name) ==
    /\ callFn = name
    /\ outcome = <<"called">>
    /\ UNCHANGED <<callFn, callArgs>>
    /\ UNCHANGED <<passVars, keplerVars, diffVars, propVars, gridVars,
                   sweepVars>>

\* calculateBasis(R, V) returns (H, C, L) (differences.py line 96)
calculateBasisReturn ==
    /\ callReturns("calculateBasis")
    /\ outcome' = <<"return", calculateBasis(callArgs[1], callArgs[2])>>

\* calculateENUBasis(lat, lon) returns (e, n, u) (latlong2enu.py line 33)
calculateENUBasisReturn ==
    /\ callReturns("calculateENUBasis")
    /\ outcome' = <<"return", calculateENUBasis(callArgs[1], callArgs[2])>>

\* ecef2latlong(R) returns (lat, lon, height) (ecef2latlong.py line 61)
ecef2latlongReturn ==
    /\ callReturns("ecef2latlong")
    /\ outcome' = <<"return", ecef2latlong(callArgs[1])>>

\* normaliseAngle(x) returns x % 2*pi, a float (utils.py)
normaliseAngleReturn ==
    /\ callReturns("normaliseAngle")
    /\ outcome' = <<"return", normaliseAngleFloat(callArgs[1])>>

normalisedAtan2Return ==
    /\ callReturns("normalisedAtan2")
    /\ outcome' = <<"return", normalisedAtan2Float(callArgs[1], callArgs[2])>>

\* cart2kep returns its dictionary, or ends in the exception it raises
cart2kepReturn ==
    /\ callReturns("cart2kep")
    /\ outcome' = IF cart2kepRaises(callArgs[1], callArgs[2]) = "none"
                  THEN <<"return", cart2kep(callArgs[1], callArgs[2])>>
                  ELSE <<cart2kepRaises(callArgs[1], callArgs[2])>>

kep2cartReturn ==
    /\ callReturns("kep2cart")
    /\ outcome' = <<"return", kep2cart(callArgs[1])>>

\* getBasis(R) returns (e, n, u) (visibility.py line 35)
getBasisReturn ==
    /\ callReturns("getBasis")
    /\ outcome' = <<"return", getBasis(callArgs[1])>>

\* getGroundTracks(ecefPos, stations) returns result (groundTracks.py
\* line 32)
getGroundTracksReturn ==
    /\ callReturns("getGroundTracks")
    /\ outcome' = <<"return", getGroundTracks(callArgs[1], callArgs[2])>>

InitCall ==
    /\ SweepIdle
    /\ \E c \in Calls : callFn = c[1] /\ callArgs = c[2]
    /\ outcome = <<"called">>
    /\ GridIdle
    /\ PassIdle
    /\ KeplerIdle
    /\ DiffIdle
    /\ PropIdle

NextCall ==
    \/ calculateBasisReturn
    \/ calculateENUBasisReturn
    \/ ecef2latlongReturn
    \/ normaliseAngleReturn
    \/ normalisedAtan2Return
    \/ cart2kepReturn
    \/ kep2cartReturn
    \/ getBasisReturn
    \/ getGroundTracksReturn

SpecCall == InitCall /\ [][NextCall]_vars

----------------------------------------------------------------------------
(* Properties of getStationPassTimes                                       *)

\* the station sees sample i of the trajectory
VisAt(i) == isVisible(ecefData[i][1], station[1], station[2], station[3])

\* the timestamp of sample i
TimeAt(i) == ecefData[i][3]

\* the samples among the first n where the satellite sets: sample j is not
\* visible and sample j - 1 is
Closings(n) == {j \in 2..n : VisAt(j - 1) /\ ~VisAt(j)}

\* the m-th setting sample among the first n, in trajectory order
NthClosing(n, m) ==
    CHOOSE j \in Closings(n) : Cardinality({k \in Closings(n) : k <= j}) = m

\* the sample that opened the pass closed at sample j: the first sample of
\* the run of visible samples that ends at j - 1
OpeningOf(j) ==
    CHOOSE i \in 1..(j - 1) :
        /\ \A k \in i..(j - 1) : VisAt(k)
        /\ i = 1 \/ ~VisAt(i - 1)

\* the maximal runs <<i, j>> of consecutive visible samples i..j
VisibleRuns ==
    {r \in (1..Len(ecefData)) \X (1..Len(ecefData)) :
        /\ r[1] <= r[2]
        /\ \A k \in r[1]..r[2] : VisAt(k)
        /\ r[1] = 1 \/ ~VisAt(r[1] - 1)
        /\ r[2] = Len(ecefData) \/ ~VisAt(r[2] + 1)}

\* C1: the sweep starts NotVisible and, after scanning the first idx - 1
\* samples, res holds exactly one record per Visible->NotVisible transition
\* among them, in trajectory order; the record's start time is the timestamp
\* of the sample that opened the pass, its end time the timestamp of the
\* sample that closed it, and its duration is end - start.
PassPerTransition ==
    /\ seenPrev = (idx > 1 /\ VisAt(idx - 1))
    /\ Len(res) = Cardinality(Closings(idx - 1))
    /\ \A m \in 1..Len(res) :
         LET j == NthClosing(idx - 1, m)
         IN  /\ res[m][3] = TimeAt(OpeningOf(j))
             /\ res[m][4] = TimeAt(j)
             /\ res[m][5] = TimeAt(j) - TimeAt(OpeningOf(j))

\* two passes were recorded on a grid of distinct timestamps
TwoPassesRecorded ==
    /\ pc = "done"
    /\ Len(res) = 2
    /\ res[1][3] < res[1][4]
    /\ res[1][4] < res[2][3]

\* C2: when the satellite is visible at the first sample, no record has a
\* rise time equal to the first sample's timestamp.
NoRiseAtFirstSample ==
    (Len(ecefData) >= 1 /\ VisAt(1)) =>
        \A m \in 1..Len(res) : res[m][3] # TimeAt(1)

\* C3: a trajectory that ends visible has no record for its final visible
\* run, and every record belongs to a visible interval that opens and closes
\* inside the trajectory: a not visible sample precedes it, a not visible
\* sample of the trajectory follows it, the record's rise time is the
\* timestamp of its first sample and its set time that of the sample that
\* follows it.
RecordsOnlyForEnclosedPasses ==
    /\ (pc = "done" /\ Len(ecefData) >= 1 /\ VisAt(Len(ecefData))) =>
         \A m \in 1..Len(res) :
            \E j \in Closings(Len(ecefData)) : res[m][4] = TimeAt(j)
    /\ \A m \in 1..Len(res) :
         \E i \in 2..Len(ecefData), j \in 2..Len(ecefData) :
            /\ i < j
            /\ j < idx
            /\ ~VisAt(i - 1)
            /\ \A k \in i..(j - 1) : VisAt(k)
            /\ ~VisAt(j)
            /\ res[m][3] = TimeAt(i)
            /\ res[m][4] = TimeAt(j)

\* the trajectory is the scenario's: the station sees exactly samples 10..40
ScenarioShape ==
    /\ Len(ecefData) >= 41
    /\ \A k \in 1..Len(ecefData) : VisAt(k) <=> (k >= 11 /\ k <= 41)

\* C4: on a scenario trajectory that has a sample 41, the scan returns
\* exactly one record; its rise time is the timestamp of sample 10 and its
\* set time is the timestamp of sample 41, the first sample after the pass.
ScenarioSetAtNextSample ==
    (pc = "done" /\ ScenarioShape /\ Len(ecefData) > 41) =>
        /\ Len(res) = 1
        /\ res[1][3] = TimeAt(11)
        /\ res[1][4] = TimeAt(42)

\* a scenario trajectory with samples after the pass, on a grid of distinct
\* timestamps, has been scanned
ScenarioScanned ==
    /\ pc = "done"
    /\ ScenarioShape
    /\ Len(ecefData) > 41
    /\ TimeAt(41) < TimeAt(42)
    /\ Len(res) = 1

\* C4 as stated: on a scenario trajectory the scan returns exactly one
\* record, with rise time the timestamp of sample 10 and set time the
\* timestamp of sample 40.
ScenarioSetAtLastVisible ==
    (pc = "done" /\ ScenarioShape) =>
        /\ Len(res) = 1
        /\ res[1][3] = TimeAt(11)
        /\ res[1][4] = TimeAt(41)

\* C5: isVisible of the sample last scanned is true exactly when the
\* elevation of the satellite at the station is strictly greater than the
\* masking angle; at an elevation equal to the masking angle it is false.
VisibleIffAboveMask ==
    idx > 1 =>
        LET elevation == stationAngles(ecefData[idx - 1][1],
                                       station[1], station[2])[1]
        IN  /\ vis <=> (elevation > station[3])
            /\ elevation = station[3] => ~vis

\* a sample exactly at the masking angle was scanned and found not visible
ScannedAtMask ==
    /\ idx > 1
    /\ stationAngles(ecefData[idx - 1][1], station[1], station[2])[1]
         = station[3]
    /\ ~vis

----------------------------------------------------------------------------
(* Properties of solveKepler                                               *)

\* C8: every call of solveKepler ends: it returns E or raises.
KeplerTerminates == <>(kepPc # "loop")

\* C9: a value E returned for e in [0, 0.99] and M in [0, 2*pi) satisfies
\* |E - e*sin(E) - M| <= the tolerance of the loop test.
ReturnedWithinTolerance ==
    (/\ kepPc = "returned"
     /\ kepEcc >= 0 /\ kepEcc <= 990
     /\ kepM >= 0 /\ kepM < TwoPI) =>
        Abs(f(kepE, kepM, kepEcc)) <= Tolerance

\* a value was returned for e = 0.99 after passes of the loop
ReturnedAfterIterating ==
    /\ kepPc = "returned"
    /\ kepEcc = 990
    /\ kepM >= 0 /\ kepM < TwoPI
    /\ kepE # firstGuess(kepEcc, kepM)

----------------------------------------------------------------------------
(* Properties of difference                                                *)

\* the smaller of two numbers
Min(a, b) == IF a <= b THEN a ELSE b

\* the row that the k-th samples of the two files give
RowOfPair(k) == <<set1[k][3]>> \o sampleDiffOf(set1[k], set2[k], diffArgs)

\* C10: the rows appended so far are the rows of the pairs 1..zipK - 1, row
\* k computed from the k-th sample of each file; when the loop has ended
\* there are min(len(set1), len(set2)) rows, and these are the rows written.
DifferencePairsByPosition ==
    /\ diffPc \in {"zip", "written"} =>
         /\ Len(diffs) = zipK - 1
         /\ Len(diffs) <= Min(Len(set1), Len(set2))
         /\ \A k \in 1..Len(diffs) : diffs[k] = RowOfPair(k)
    /\ diffPc = "written" =>
         /\ Len(diffs) = Min(Len(set1), Len(set2))
         /\ outfile = diffs

\* files of different lengths, with different states at the same position
\* and on different time grids, were paired and written
UnequalFilesWritten ==
    /\ diffPc = "written"
    /\ Len(set1) # Len(set2)
    /\ Len(diffs) >= 1
    /\ set1[1][1] # set2[1][1]
    /\ set1[1][3] # set2[1][3]

\* the two files have the same length and the same timestamp at every
\* position
TrajectoriesAligned ==
    /\ Len(set1) = Len(set2)
    /\ \A k \in 1..Len(set1) : set1[k][3] = set2[k][3]

\* C11: difference writes its rows only for two trajectories of equal length
\* whose k-th samples carry the same timestamp; on any other pair it ends in
\* an error and writes nothing
MismatchedTrajectoriesRejected == diffPc = "written" => TrajectoriesAligned

----------------------------------------------------------------------------
(* Properties of the propagators.                                          *)

\* the state the caller passed: (R0, V0, t0)
CallerState == <<propArgs.R, propArgs.V, propArgs.baseTime>>

----------------------------------------------------------------------------
(* Properties of the pure functions.                                       *)

\* two fixed-point numbers that differ by rounding only
Near(a, b) == Abs(a - b) <= 3

\* two vectors that differ by rounding only
NearVec(a, b) == Near(a[1], b[1]) /\ Near(a[2], b[2]) /\ Near(a[3], b[3])

(* the step of the two Runge-Kutta propagators *)

\* the k function of the propagator called
StepK == IF propAlg = "rk4MonoPropogation" THEN "monopoleK" ELSE "j2k"

\* R + c*V + K for a fixed-point factor c
SubStepPosition(R, V, c, K) ==
    <<R[1] + FMul(c, V[1]) + K[1], R[2] + FMul(c, V[2]) + K[2],
      R[3] + FMul(c, V[3]) + K[3]>>

\* K/d, component by component
VecOver(K, d) == <<RDiv(K[1], d), RDiv(K[2], d), RDiv(K[3], d)>>

\* K/d for a fixed-point divisor d (not 0), component by component
VecOverFixed(K, d) == <<FDiv(K[1], d), FDiv(K[2], d), FDiv(K[3], d)>>

\* k2 of the step from R, V: k(R + (h/2)V + k1/4)
StatedK2(R, V, h, k) ==
    kOf(k, SubStepPosition(R, V, RDiv(h, 2), VecOver(kOf(k, R, h), 4)), h)

\* k3 of the step from R, V: k(R + (h/2)V + k2/4)
StatedK3(R, V, h, k) ==
    kOf(k, SubStepPosition(R, V, RDiv(h, 2), VecOver(StatedK2(R, V, h, k), 4)),
        h)

\* k4 of the step from R, V: k(R + hV + k3)
StatedK4(R, V, h, k) ==
    kOf(k, SubStepPosition(R, V, h, StatedK3(R, V, h, k)), h)

\* R' = R + hV + (k1 + k2 + k3)/3
StatedPosition(R, V, h, k) ==
    SubStepPosition(R, V, h,
        VecOver(VecAdd(kOf(k, R, h),
                       VecAdd(StatedK2(R, V, h, k), StatedK3(R, V, h, k))), 3))

\* V' = V + (k1 + 2 k2 + 2 k3 + k4)/(3h)
StatedVelocity(R, V, h, k) ==
    VecAdd(V,
        VecOverFixed(VecAdd(VecAdd(kOf(k, R, h), StatedK4(R, V, h, k)),
                            VecScale(2 * Scale,
                                     VecAdd(StatedK2(R, V, h, k),
                                            StatedK3(R, V, h, k)))),
                     3 * h))

\* C24: every step of rk4MonoPropogation and of rk4j2Propogation takes the
\* state R, V to R' = R + hV + (k1 + k2 + k3)/3 and
\* V' = V + (k1 + 2 k2 + 2 k3 + k4)/(3h), up to rounding, where k1 = k(R),
\* k2 = k(R + (h/2)V + k1/4), k3 = k(R + (h/2)V + k2/4) and
\* k4 = k(R + hV + k3) are computed from the R and V the step started from,
\* with k the monopole term in the one propagator and the J2 term in the other
StepAsStated ==
    [][(propAlg \in {"rk4MonoPropogation", "rk4j2Propogation"}
          /\ propStep' = propStep + 1) =>
          /\ NearVec(newR', StatedPosition(newR, newV, propArgs.timestep,
                                           StepK))
          /\ NearVec(newV', StatedVelocity(newR, newV, propArgs.timestep,
                                           StepK))
          /\ results'[Len(results')][1] = newR'
          /\ results'[Len(results')][2] = newV']_vars

\* rk4j2Propogation has taken two steps of half a time unit, each one moving
\* the satellite, the first to another state than the monopole step does
TwoJ2StepsTaken ==
    /\ propAlg = "rk4j2Propogation"
    /\ propArgs.timestep = 500
    /\ Len(results) >= 3
    /\ results[2][1] # results[1][1]
    /\ results[3][1] # results[2][1]
    /\ <<results[2][1], results[2][2]>>
          # rk4PropogationStep(results[1][1], results[1][2], 500, "monopoleK")

\* x, y, z are unit vectors, pairwise orthogonal
Orthonormal(x, y, z) ==
    /\ Near(Norm(x), Scale) /\ Near(Norm(y), Scale) /\ Near(Norm(z), Scale)
    /\ Near(Dot(x, y), 0) /\ Near(Dot(y, z), 0) /\ Near(Dot(x, z), 0)

\* the function name has returned
Returned(name) == callFn = name /\ outcome[1] = "return"

\* C12 as stated: the basis (H, C, L) of calculateBasis is orthonormal and
\* right-handed in this order, H x C = L
BasisRightHanded ==
    Returned("calculateBasis") =>
        /\ Orthonormal(outcome[2][1], outcome[2][2], outcome[2][3])
        /\ NearVec(Cross(outcome[2][1], outcome[2][2]), outcome[2][3])

\* C12: the basis (H, C, L) of calculateBasis is orthonormal with
\* L = C x H, so that H x C = -L and the triad is right-handed in the order
\* (H, L, C): H x L = C
BasisAlongTrack ==
    Returned("calculateBasis") =>
        /\ Orthonormal(outcome[2][1], outcome[2][2], outcome[2][3])
        /\ outcome[2][3] = Cross(outcome[2][2], outcome[2][1])
        /\ NearVec(Cross(outcome[2][1], outcome[2][2]),
                   VecSub(ZeroVec, outcome[2][3]))
        /\ NearVec(Cross(outcome[2][1], outcome[2][3]), outcome[2][2])

\* calculateBasis has returned the basis of an inclined orbit: no vector of
\* the basis lies along a coordinate axis
InclinedBasisReturned ==
    /\ Returned("calculateBasis")
    /\ \A k \in 1..3 :
          Cardinality({j \in 1..3 : outcome[2][k][j] # 0}) >= 2

\* C13: the basis (E, N, U) of calculateENUBasis is orthonormal and
\* right-handed in this order, E x N = U, for every latitude in [-90, 90]
\* and longitude in (-180, 180]
ENUBasisRightHanded ==
    Returned("calculateENUBasis") =>
        /\ Orthonormal(outcome[2][1], outcome[2][2], outcome[2][3])
        /\ NearVec(Cross(outcome[2][1], outcome[2][2]), outcome[2][3])

\* calculateENUBasis has returned the basis of a station off the equator,
\* the poles and the coordinate planes
ObliqueENUBasisReturned ==
    /\ Returned("calculateENUBasis")
    /\ callArgs = <<51500, -135000>>
    /\ \A j \in 1..3 : outcome[2][2][j] # 0 /\ outcome[2][3][j] # 0

\* C14: for a position with x and y not both 0, ecef2latlong returns a
\* longitude in (-180, 180] degrees and a latitude in [-90, 90] degrees; a
\* point of the negative x axis side (y = 0, x < 0) has longitude 180, and
\* the longitude is negative exactly when y < 0
LongitudeInHalfOpenRange ==
    Returned("ecef2latlong") =>
        /\ outcome[2][2] > -180 * Scale /\ outcome[2][2] <= 180 * Scale
        /\ outcome[2][1] >= -90 * Scale /\ outcome[2][1] <= 90 * Scale
        /\ (callArgs[1][2] = 0 /\ callArgs[1][1] < 0) =>
               outcome[2][2] = 180 * Scale
        /\ (outcome[2][2] < 0) = (callArgs[1][2] < 0)

\* ecef2latlong has returned a longitude that was reduced by 360
WesternLongitudeReturned ==
    /\ Returned("ecef2latlong")
    /\ callArgs[1][2] < 0
    /\ callArgs[1][3] # 0
    /\ outcome[2][2] < -90 * Scale

\* C15: normaliseAngle and normalisedAtan2 return an angle in [0, 2*pi):
\* never a negative value and never the value 2*pi itself
AnglesInHalfOpenRange ==
    Returned("normaliseAngle") \/ Returned("normalisedAtan2")
        => 0 <= outcome[2] /\ outcome[2] < floatTwoPI

\* the resolution at which a converted state is compared (1e-08 in the
\* tests), in 1/Scale of the canonical units
RoundTripTolerance == 6

NearState(x, rv) ==
    \A j \in 1..2 : \A k \in 1..3 : Abs(x[j][k] - rv[j][k]) <= RoundTripTolerance

Equatorial(R, V) == Cross(R, V)[1] = 0 /\ Cross(R, V)[2] = 0

\* the orbit of (R, V) is a circle (v*v = GM/r, R.V = 0) or a parabola
\* (v*v = 2*GM/r)
CircularOrParabolic(R, V) ==
    \/ Dot(R, V) = 0 /\ FMul(Norm(V), Norm(V)) = FDiv(FMul(GM, Scale), Norm(R))
    \/ FMul(Norm(V), Norm(V)) = FDiv(2 * FMul(GM, Scale), Norm(R))

\* C17: cart2kep of a state whose orbit is equatorial, circular or parabolic
\* ends in a DegenerateOrbit error, and returns no element set
SingularOrbitRejected ==
    /\ callFn = "cart2kep"
    /\ outcome # <<"called">>
    /\ Equatorial(callArgs[1], callArgs[2])
          \/ CircularOrParabolic(callArgs[1], callArgs[2])
    => outcome = <<"DegenerateOrbit">>

----------------------------------------------------------------------------
(* Properties of allPassTimes                                              *)

RECURSIVE SumOfDurations(_)
\* the sum of set time - rise time over pass records
SumOfDurations(records) ==
    IF records = <<>> THEN 0
    ELSE (Head(records)[4] - Head(records)[3]) + SumOfDurations(Tail(records))

\* C18: the third field allPassTimes reports for a station is the sum, over
\* the pass records of that station, of set time - rise time (0 without a pass)
TotalIsVisibleTime ==
    pc = "appended"
        => /\ Len(totals) = stationsProcessed
           /\ totals[Len(totals)]
                  = <<station[1], station[2], SumOfDurations(res)>>

\* the resolution of the model at the surface: degrees/Scale and km
AngleTolerance == 100

HeightTolerance == 7

----------------------------------------------------------------------------
(* Properties of the records of getStationPassTimes                        *)

\* elevation and azimuth of sample i at the station scanned
AnglesAt(i) == stationAngles(ecefData[i][1], station[1], station[2])

\* the first sample of the run of visible samples that ends at sample n
RunStart(n) ==
    CHOOSE i \in 1..n :
        /\ \A k \in i..n : VisAt(k)
        /\ i = 1 \/ ~VisAt(i - 1)

RecordsAreMaximalRuns ==
    \A m \in 1..Len(res) :
        \E i \in 1..Len(ecefData), j \in 2..Len(ecefData) :
            /\ i < j
            /\ j < idx
            /\ res[m][3] = TimeAt(i)
            /\ res[m][4] = TimeAt(j)
            /\ \A k \in i..(j - 1) : VisAt(k)
            /\ ~VisAt(j)
            /\ i > 1 => ~VisAt(i - 1)

\* on distinct timestamps a pass of two visible samples between two samples
\* that are not visible was recorded
EnclosedRunRecorded ==
    /\ pc = "done"
    /\ Len(ecefData) = 4
    /\ TimeAt(1) < TimeAt(2)
    /\ ~VisAt(1) /\ VisAt(2) /\ VisAt(3) /\ ~VisAt(4)
    /\ res # <<>>
    /\ res[1][3] = TimeAt(2)
    /\ res[1][4] = TimeAt(4)

\* the timestamps of the trajectory increase strictly
StrictlyIncreasingTimes ==
    \A i \in 1..(Len(ecefData) - 1) : TimeAt(i) < TimeAt(i + 1)

\* C26: on a trajectory of strictly increasing timestamps the records are
\* ordered and disjoint: every record's rise time is before its set time,
\* its duration is positive, and its set time is before the rise time of the
\* record after it.
RecordsOrderedAndDisjoint ==
    StrictlyIncreasingTimes =>
        /\ \A m \in 1..Len(res) : res[m][3] < res[m][4] /\ res[m][5] > 0
        /\ \A m \in 1..(Len(res) - 1) : res[m][4] < res[m + 1][3]

\* two passes of one sample each, one sample apart, were recorded on a grid
\* of spacing 60
TwoDisjointPassesRecorded ==
    /\ pc = "done"
    /\ StrictlyIncreasingTimes
    /\ Len(ecefData) = 4
    /\ VisAt(1) /\ ~VisAt(2) /\ VisAt(3) /\ ~VisAt(4)
    /\ TimeAt(2) = TimeAt(1) + 60
    /\ Len(res) = 2
    /\ res[2][3] = res[1][4] + 60

\* C27: every record carries the latitude and longitude of the station
\* scanned and an elevation strictly greater than the station's masking
\* angle; its elevation and azimuth are those computed at a visible sample
\* whose timestamp is the record's rise time, never the values 0 and 0 the
\* scan starts with.
RecordsCarryStationAndRiseAngles ==
    \A m \in 1..Len(res) :
        /\ res[m][1] = station[1]
        /\ res[m][2] = station[2]
        /\ res[m][6] > station[3]
        /\ \E i \in 1..(idx - 1) :
              /\ VisAt(i)
              /\ res[m][3] = TimeAt(i)
              /\ <<res[m][6], res[m][7]>> = AnglesAt(i)

\* the station at latitude 51.5 with the masking angle 5 recorded a pass
\* that rose after samples that were not visible
MaskedStationPassRecorded ==
    /\ pc = "done"
    /\ station = <<51500, -100, 5000>>
    /\ Len(ecefData) >= 3
    /\ ~VisAt(1)
    /\ Len(res) = 1
    /\ res[1][1] = 51500
    /\ res[1][6] > 5000
    /\ <<res[1][6], res[1][7]>> # <<0, 0>>

----------------------------------------------------------------------------
(* Properties of the sweep of passTimes                                    *)

\* C21: the records of a station depend on the trajectory and the station
\* only: whichever worker scans which station, in whatever order and
\* interleaving, the lists joined in the order of the stations are the
\* result of the sequential sweep of passTimes
SweepIndependentOfWorkers ==
    /\ sweepPc = "joined" => res = sequentialSweep(ecefData, sweepStations)
    /\ \A k \in 1..Len(stationRes) :
          stationRes[k][1] = "returned" =>
              stationRes[k][2]
                  = scanFrom(NoScan, ecefData, sweepStations[k], 1).res

\* a sweep is joined in which both workers scanned, the first worker scanned
\* a later station before an earlier one, and two stations have records
InterleavedSweepJoined ==
    /\ sweepPc = "joined"
    /\ \E j, k \in 1..Len(sweepStations) :
          /\ j < k
          /\ owner[j] # owner[k]
          /\ stationRes[j][2] # <<>>
          /\ stationRes[k][2] # <<>>
          /\ stationRes[j][2] # stationRes[k][2]
    /\ Len(res) >= 2

----------------------------------------------------------------------------
(* Properties of getGroundTracks                                           *)

\* station k of the list of the call sees position i of the call
SeenBy(i, k) ==
    isVisible(callArgs[1][i], callArgs[2][k][1], callArgs[2][k][2],
              callArgs[2][k][3])

\* C23: getGroundTracks returns exactly one row per position, in the order
\* of the positions: row i holds ecef2latlong of position i and a flag that
\* is true exactly when at least one station of the list sees position i;
\* with an empty station list every flag is false.
OneRowPerPosition ==
    Returned("getGroundTracks") =>
        /\ Len(outcome[2]) = Len(callArgs[1])
        /\ \A i \in 1..Len(callArgs[1]) :
              /\ outcome[2][i][1] = ecef2latlong(callArgs[1][i])
              /\ outcome[2][i][2]
                    <=> \E k \in 1..Len(callArgs[2]) : SeenBy(i, k)
        /\ callArgs[2] = <<>> =>
              \A i \in 1..Len(callArgs[1]) : ~outcome[2][i][2]

\* rows were returned for two positions with different coordinates, one
\* seen by a later station of the list and not by the first, the other seen
\* by no station
TracksOfTwoPositionsReturned ==
    /\ Returned("getGroundTracks")
    /\ Len(callArgs[1]) = 2
    /\ Len(callArgs[2]) >= 2
    /\ outcome[2][1][1] # outcome[2][2][1]
    /\ \E i, j \in 1..2 :
          /\ ~SeenBy(i, 1)
          /\ \E k \in 2..Len(callArgs[2]) : SeenBy(i, k)
          /\ outcome[2][i][2]
          /\ ~outcome[2][j][2]

====
